---- MODULE Spec2Model ----
(***************************************************************************)
(* State-machine model of the KalshiBot trading core: the risk gate        *)
(* (core/risk.py), the order manager (core/orders.py), the two exchange    *)
(* clients as the order manager uses them (client/mock.py,                 *)
(* client/kalshi.py), the orders table (db/repository.py) and the runner   *)
(* cycle (scheduler/runner.py).                                            *)
(*                                                                         *)
(* Conventions.  Money is kept in cents, so that order.notional_value      *)
(* (price * quantity / 100 dollars) is the integer price * quantity.       *)
(* Probabilities and confidences are in percent, expected value in         *)
(* per-mille.  Python's None is 0 for ids and prices (both are falsy in    *)
(* the code's "x or default" tests) and -1 for the optional backtest       *)
(* statistics.  Arithmetic is exact: float rounding is not modelled.       *)
(***************************************************************************)
EXTENDS Integers, Sequences, FiniteSets, TLC

\* ------------------------------------------------------------------------
\* Settings (config.py), the defaults of class Settings
\* ------------------------------------------------------------------------
max_daily_loss_dollars == 50
max_per_market_exposure_dollars == 20
max_total_exposure_dollars == 100
default_position_size_dollars == 5
\* kelly_fraction = 0.25, in percent
kelly_fraction == 25
\* min_expected_value = 0.02, in per-mille
min_expected_value == 20
\* confidence_threshold = 0.60, in percent
confidence_threshold == 60
\* min_win_rate = 0.70, in percent
min_win_rate == 70
min_backtest_samples == 30
use_kelly_sizing == TRUE
\* max_trades_per_day (default 20) and max_open_positions (default 10) are
\* configuration options; the model runs with small caps so that they are
\* reached.
max_trades_per_day == 2
max_open_positions == 1

\* MockKalshiClient(slippage_cents = 1)
slippage_cents == 1
\* MockKalshiClient(initial_balance = 1000.0) dollars
initial_balance == 1000

Cents(dollars) == dollars * 100

\* ------------------------------------------------------------------------
\* Bounds of the model
\* ------------------------------------------------------------------------
\* number of Order objects created in one behaviour
MaxOrders == 3

\* ------------------------------------------------------------------------
\* Values
\* ------------------------------------------------------------------------
NoId == 0
NoPrice == 0
NoStat == 0 - 1

DRY_RUN == "dry_run"
PAPER == "paper"
LIVE == "live"
TradingMode == {PAPER, LIVE, DRY_RUN}

PENDING == "pending"
SUBMITTED == "submitted"
OPEN == "open"
PARTIALLY_FILLED == "partial"
FILLED == "filled"
CANCELLED == "cancelled"
REJECTED == "rejected"
EXPIRED == "expired"
OrderStatus ==
    {PENDING, SUBMITTED, OPEN, PARTIALLY_FILLED, FILLED, CANCELLED, REJECTED, EXPIRED}

YES == "yes"
NO == "no"
NoSide == "none"

Min(a, b) == IF a <= b THEN a ELSE b
Max(a, b) == IF a >= b THEN a ELSE b
\* Python int(): truncation toward zero; d > 0
TruncDiv(n, d) == IF n >= 0 THEN n \div d ELSE 0 - ((0 - n) \div d)

\* Order.is_complete
is_complete(status) == status \in {FILLED, CANCELLED, REJECTED, EXPIRED}

\* Order.notional_value, in cents
notional_value(order) == order.price * order.quantity

\* ------------------------------------------------------------------------
\* Signals the strategies can emit.  entry_price ranges over what
\* MispricingStrategy / MeanReversionStrategy compute from a book whose
\* prices are 1..99: int(mid) - 1 .. 100 - int(mid) + 1, i.e. 0..100.
\* ------------------------------------------------------------------------
Sig(strategy, ticker, side, conf, fair, ev, entry) ==
    [strategy_name |-> strategy, ticker |-> ticker, side |-> side,
     confidence |-> conf, fair_probability |-> fair, expected_value |-> ev,
     entry_price |-> entry, backtest_win_rate |-> NoStat, backtest_samples |-> NoStat]

\* in the order the runner meets them: market by market, strategy by strategy
SignalSeq ==
    << Sig("mispricing_v1", "T1", YES, 75, 55, 30, 50),
       Sig("mispricing_v1", "T1", NO, 75, 45, 5, 50),
       Sig("mean_reversion_v1", "T1", NoSide, 0, 50, 0, NoPrice),
       Sig("mispricing_v1", "T2", YES, 90, 99, 30, 100),
       Sig("mean_reversion_v1", "T2", NO, 70, 40, 50, NoPrice) >>

SignalPool == {SignalSeq[i] : i \in DOMAIN SignalSeq}

Tickers == {"T1", "T2"}

\* StrategySignal.is_tradeable (models/snapshot.py): the signal has a side
is_tradeable(signal) == signal.side # NoSide

\* ------------------------------------------------------------------------
\* Risk gate (core/risk.py)
\* ------------------------------------------------------------------------
NoPositions == [t \in {} |-> 0]

\* RiskState(): the dataclass defaults
RiskState ==
    [trades_today |-> 0, daily_realized_pnl |-> 0, daily_unrealized_pnl |-> 0,
     open_positions |-> NoPositions, total_exposure |-> 0,
     pending_order_exposure |-> 0]

daily_total_pnl(st) == st.daily_realized_pnl + st.daily_unrealized_pnl
num_open_positions(st) == Cardinality(DOMAIN st.open_positions)

\* Position.cost_basis in cents: average_entry_price * quantity, kept as the
\* summed cost of the fills
cost_basis(pos) == pos.cost

\* Position.unrealized_pnl or 0
unrealized_pnl(pos) ==
    IF pos.current_price = NoPrice THEN 0
    ELSE pos.current_price * pos.quantity - cost_basis(pos)

RECURSIVE SumOver(_, _)
SumOver(f, S) ==
    IF S = {} THEN 0
    ELSE LET x == CHOOSE y \in S : TRUE IN f[x] + SumOver(f, S \ {x})

Pass == [passed |-> TRUE, reason |-> "", allowed_size |-> 0]
Fail(reason) == [passed |-> FALSE, reason |-> reason, allowed_size |-> 0]

\* _check_daily_loss that lets a breached limit pass
check_daily_loss_off(st) == Pass

check_daily_loss(st) ==
    IF daily_total_pnl(st) < 0 - Cents(max_daily_loss_dollars)
    THEN Fail("Daily loss limit breached") ELSE Pass

\* _check_max_trades that allows one trade more than the cap
check_max_trades_off_by_one(st) ==
    IF st.trades_today > max_trades_per_day
    THEN Fail("Max trades reached") ELSE Pass

check_max_trades(st) ==
    IF st.trades_today >= max_trades_per_day
    THEN Fail("Max trades reached") ELSE Pass

check_max_positions(st) ==
    IF num_open_positions(st) >= max_open_positions
    THEN Fail("Max positions reached") ELSE Pass

check_total_exposure(st, proposed_size) ==
    IF st.total_exposure + st.pending_order_exposure + proposed_size
           > Cents(max_total_exposure_dollars)
    THEN Fail("Total exposure limit") ELSE Pass

check_market_exposure(st, ticker, proposed_size) ==
    LET existing == IF ticker \in DOMAIN st.open_positions
                    THEN cost_basis(st.open_positions[ticker]) ELSE 0
    IN IF existing + proposed_size > Cents(max_per_market_exposure_dollars)
       THEN Fail("Market exposure limit") ELSE Pass

check_signal_quality(signal) ==
    IF signal.expected_value < min_expected_value THEN Fail("EV too low")
    ELSE IF signal.confidence < confidence_threshold THEN Fail("Confidence too low")
    ELSE IF signal.backtest_win_rate # NoStat /\ signal.backtest_win_rate < min_win_rate
         THEN Fail("Backtest win rate too low")
    ELSE IF signal.backtest_samples # NoStat
            /\ signal.backtest_samples < min_backtest_samples
         THEN Fail("Insufficient backtest samples")
    ELSE Pass

\* signal.entry_price or 50
EntryPrice(signal) == IF signal.entry_price = NoPrice THEN 50 ELSE signal.entry_price

\* _calculate_allowed_size.  With p the win probability in percent and e the
\* entry price, win_payout = (100 - e) / e and
\*   kelly = (p/100 * win_payout - (1 - p/100)) / win_payout = (p - e) / (100 - e),
\* so kelly_size in cents is the fraction KellyNum / KellyDen below.
calculate_allowed_size(st, signal, proposed_size) ==
    LET e == EntryPrice(signal)
        p == IF signal.side = YES THEN signal.fair_probability
             ELSE 100 - signal.fair_probability
        caps == Min(proposed_size,
                    Min(Cents(max_per_market_exposure_dollars),
                        Cents(max_total_exposure_dollars) - st.total_exposure))
        KellyNum == IF 100 - e > 0
                    THEN Max(0, p - e) * kelly_fraction * max_total_exposure_dollars
                    ELSE 0
        KellyDen == IF 100 - e > 0 THEN 100 - e ELSE 1
        contracts ==
            IF use_kelly_sizing /\ signal.expected_value > 0
            THEN IF caps * KellyDen <= KellyNum
                 THEN TruncDiv(caps, e)
                 ELSE TruncDiv(KellyNum, KellyDen * e)
            ELSE TruncDiv(Min(proposed_size,
                              Min(Cents(default_position_size_dollars),
                                  Cents(max_per_market_exposure_dollars))), e)
    IN Max(1, contracts)

\* check_order: the first failing check, in the order of the list
check_order(st, signal, proposed_size) ==
    LET c1 == check_daily_loss(st)
        c2 == check_max_trades(st)
        c3 == check_max_positions(st)
        c4 == check_total_exposure(st, proposed_size)
        c5 == check_market_exposure(st, signal.ticker, proposed_size)
        c6 == check_signal_quality(signal)
    IN IF ~c1.passed THEN c1
       ELSE IF ~c2.passed THEN c2
       ELSE IF ~c3.passed THEN c3
       ELSE IF ~c4.passed THEN c4
       ELSE IF ~c5.passed THEN c5
       ELSE IF ~c6.passed THEN c6
       ELSE [passed |-> TRUE, reason |-> "",
             allowed_size |-> calculate_allowed_size(st, signal, proposed_size)]

\* check_idempotency that never finds a key used
check_idempotency_always_new(keys, key) == TRUE

\* check_idempotency: TRUE when the key is new
check_idempotency(keys, key) == key \notin keys

\* _recalculate_exposure
recalculate_exposure(st) ==
    [st EXCEPT !.total_exposure =
        SumOver([t \in DOMAIN st.open_positions |-> cost_basis(st.open_positions[t])],
                DOMAIN st.open_positions)]

\* record_order_submitted that counts the trade but forgets its exposure
record_order_submitted_no_exposure(st, order) ==
    [st EXCEPT !.trades_today = @ + 1]

\* record_order_submitted: the risk-state part (the key set is a separate field)
record_order_submitted(st, order) ==
    [st EXCEPT !.trades_today = @ + 1,
               !.pending_order_exposure = @ + notional_value(order)]

\* order.average_fill_price or order.price
FillPrice(order) ==
    IF order.average_fill_price = NoPrice THEN order.price ELSE order.average_fill_price

\* record_fill
record_fill(st, order) ==
    LET pend == Max(0, st.pending_order_exposure - notional_value(order))
        t == order.ticker
        pos == IF t \notin DOMAIN st.open_positions
               THEN [side |-> order.side, quantity |-> order.filled_quantity,
                     cost |-> FillPrice(order) * order.filled_quantity,
                     current_price |-> NoPrice]
               ELSE [st.open_positions[t] EXCEPT
                       !.quantity = @ + order.filled_quantity,
                       !.cost = @ + FillPrice(order) * order.filled_quantity]
        positions == [x \in DOMAIN st.open_positions \cup {t} |->
                        IF x = t THEN pos ELSE st.open_positions[x]]
    IN recalculate_exposure(
         [st EXCEPT !.pending_order_exposure = pend, !.open_positions = positions])

\* record_pnl
record_pnl(st, ticker, realized_pnl) ==
    recalculate_exposure(
      [st EXCEPT !.daily_realized_pnl = @ + realized_pnl,
                 !.open_positions =
                    [x \in DOMAIN st.open_positions \ {ticker} |-> st.open_positions[x]]])

\* update_unrealized_pnl
update_unrealized_pnl(st) ==
    [st EXCEPT !.daily_unrealized_pnl =
        SumOver([t \in DOMAIN st.open_positions |-> unrealized_pnl(st.open_positions[t])],
                DOMAIN st.open_positions)]

\* ------------------------------------------------------------------------
\* State
\* ------------------------------------------------------------------------
VARIABLES
    mode,                    \* OrderManager.mode / TradingRunner.mode
    kalshi_api_key_id,       \* settings.kalshi_api_key_id is non-empty
    kalshi_private_key_path, \* settings.kalshi_private_key_path is non-empty
    kalshi_api_key,          \* settings.kalshi_api_key (legacy) is non-empty
    risk,                    \* RiskManager.state
    idempotency_keys,        \* RiskManager._idempotency_keys
    objs,                    \* the Order objects created so far, by Order.id
    om_orders,               \* keys of OrderManager._orders
    mock_orders,             \* keys of MockKalshiClient._orders
    mock_balance,            \* MockKalshiClient._balance, cents
    exch,                    \* the exchange's orders, by exchange order id
    nextId,                  \* next fresh uuid4()
    pc,                      \* per caller: where its process_signal call is
    cur,                     \* per caller: the order its call is placing
    result,                  \* what the runner's last process_signal call returned
    placed,                  \* ids of the orders handed to client.place_order
    returned,                \* ids of the orders process_signal has returned
    last_log                 \* the last event process_signal logged on returning None

omvars == <<mode, kalshi_api_key_id, kalshi_private_key_path, kalshi_api_key, risk,
            idempotency_keys, objs, om_orders, mock_orders, mock_balance, exch,
            nextId, pc, cur, result, placed, returned, last_log>>

\* Callers of the order manager: 0 is the runner's loop, the others are
\* concurrent coroutines calling process_signal on the same event loop.
Callers == {1, 2}

\* TradingRunner.__init__: the real client only when key id and private key
\* path are both set, the mock client otherwise
ClientKind ==
    IF kalshi_api_key_id /\ kalshi_private_key_path THEN "real" ELSE "mock"

\* The exchange order id given to order `id`: fresh, and never an Order.id
KalshiId(id) == 100 + id

utc_date == "2026-01-15"

\* ------------------------------------------------------------------------
\* Order manager (core/orders.py)
\* ------------------------------------------------------------------------
\* _create_order
create_order(signal, quantity, id) ==
    [id |-> id,
     idempotency_key |-> <<utc_date, signal.ticker, signal.strategy_name, signal.side>>,
     kalshi_order_id |-> NoId,
     ticker |-> signal.ticker, side |-> signal.side,
     price |-> EntryPrice(signal), quantity |-> quantity,
     strategy_name |-> signal.strategy_name,
     status |-> PENDING, filled_quantity |-> 0, average_fill_price |-> NoPrice,
     filled_at |-> FALSE, error_message |-> ""]

\* MockKalshiClient.place_order: fill says whether random() < fill_probability.
\* The result is the order, the new balance and whether the client kept it.
mock_place_order(order, balance, fill) ==
    LET o1 == [order EXCEPT !.kalshi_order_id = KalshiId(order.id)]
        required == order.price * order.quantity
        fill_price == IF order.side = YES
                      THEN Min(order.price + slippage_cents, 99)
                      ELSE Max(order.price - slippage_cents, 1)
    IN IF required > balance
       THEN [order |-> [o1 EXCEPT !.status = REJECTED,
                                  !.error_message = "Insufficient balance"],
             balance |-> balance, kept |-> FALSE]
       ELSE IF fill
       THEN [order |-> [o1 EXCEPT !.status = FILLED,
                                  !.filled_quantity = order.quantity,
                                  !.average_fill_price = fill_price,
                                  !.filled_at = TRUE],
             balance |-> balance - fill_price * order.quantity, kept |-> TRUE]
       ELSE [order |-> [o1 EXCEPT !.status = OPEN], balance |-> balance, kept |-> TRUE]

\* MockKalshiClient.get_order / cancel_order look the exchange order id up in
\* _orders, which place_order keyed by Order.id
mock_has_order(order_id) == order_id \in mock_orders

\* KalshiClient.place_order: outcome is the exchange's answer
\*   "ack"       the order is accepted
\*   "api_error" KalshiAPIError, caught by place_order: REJECTED
\*   "auth_error" KalshiAuthError (401), raised to the caller at once
\*   "raise"      a request error after the last retry, raised to the caller
PlaceOutcomes == {"ack", "api_error", "auth_error", "raise"}
\* the outcomes place_order does not catch
Raising == {"auth_error", "raise"}
real_place_order(order, outcome) ==
    IF outcome = "ack"
    THEN [order EXCEPT !.kalshi_order_id = KalshiId(order.id), !.status = SUBMITTED]
    ELSE [order EXCEPT !.status = REJECTED, !.error_message = "api_error"]

\* KalshiClient._parse_order: status_map.get(status, PENDING)
parse_status(raw) ==
    IF raw = "pending" THEN PENDING
    ELSE IF raw = "open" THEN OPEN
    ELSE IF raw = "filled" THEN FILLED
    ELSE IF raw \in {"canceled", "cancelled"} THEN CANCELLED
    ELSE PENDING

\* _live_order's safety check
live_order_blocked == ~kalshi_api_key

\* The synchronous head of process_signal, up to the first suspension:
\* what is done with the signal, and the order if one is built.
\*   "none"    returns None (not tradeable, risk check failed, duplicate)
\*   "dry"     _dry_run_order
\*   "blocked" _live_order without an API key
\*   "place"   _paper_order / _live_order reach client.place_order
route(signal) ==
    LET chk == check_order(risk, signal, Cents(default_position_size_dollars))
        qty == IF chk.allowed_size = 0 THEN 1 ELSE chk.allowed_size
        order == create_order(signal, qty, nextId)
        None(event, reason, key) ==
            [kind |-> "none", order |-> order,
             log |-> [event |-> event, reason |-> reason, key |-> key]]
        Go(kind) == [kind |-> kind, order |-> order, log |-> last_log]
    IN IF ~is_tradeable(signal) THEN None("signal_not_tradeable", "", <<>>)
       ELSE IF ~chk.passed THEN None("signal_rejected_by_risk", chk.reason, <<>>)
       ELSE IF ~check_idempotency(idempotency_keys, order.idempotency_key)
            THEN None("duplicate_order_skipped", "", order.idempotency_key)
       ELSE IF mode = DRY_RUN THEN Go("dry")
       ELSE IF mode = LIVE /\ live_order_blocked THEN Go("blocked")
       ELSE Go("place")

Raised == 0 - 1

\* Settings.sync_api_key_fields: the validator run when settings are loaded
sync_api_key_fields(key_id, legacy_key) == key_id \/ legacy_key

OMInit ==
    /\ mode \in TradingMode
    /\ kalshi_api_key \in BOOLEAN
    /\ \E key_id \in BOOLEAN :
           kalshi_api_key_id = sync_api_key_fields(key_id, kalshi_api_key)
    /\ kalshi_private_key_path \in BOOLEAN
    /\ risk = RiskState
    /\ idempotency_keys = {}
    /\ objs = [i \in {} |-> 0]
    /\ om_orders = {}
    /\ mock_orders = {}
    /\ mock_balance = Cents(initial_balance)
    /\ exch = [k \in {} |-> 0]
    /\ nextId = 1
    /\ pc = [c \in {0} \cup Callers |-> "idle"]
    /\ cur = [c \in {0} \cup Callers |-> NoId]
    /\ result = NoId
    /\ placed = {}
    /\ returned = {}
    /\ last_log = [event |-> "", reason |-> "", key |-> <<>>]

settings == <<mode, kalshi_api_key_id, kalshi_private_key_path, kalshi_api_key>>

AddObj(order) == [i \in DOMAIN objs \cup {order.id} |->
                    IF i = order.id THEN order ELSE objs[i]]

\* process_signal returns None: not tradeable, risk check failed, or duplicate
ProcessSignalNone(c, signal) ==
    /\ pc[c] = "idle"
    /\ route(signal).kind = "none"
    /\ result' = IF c = 0 THEN NoId ELSE result
    /\ last_log' = route(signal).log
    /\ UNCHANGED <<settings, risk, idempotency_keys, objs, om_orders, mock_orders,
                   mock_balance, exch, nextId, pc, cur, placed, returned>>

\* _dry_run_order that simulates a full fill
dry_run_order_filled(order) ==
    [order EXCEPT !.status = FILLED, !.filled_quantity = order.quantity,
                  !.average_fill_price = order.price, !.filled_at = TRUE]

\* _dry_run_order: the order is logged and marked PENDING
dry_run_order(order) == [order EXCEPT !.status = PENDING]

\* process_signal -> _dry_run_order
ProcessSignalDryRun(c, signal) ==
    /\ pc[c] = "idle"
    /\ nextId <= MaxOrders
    /\ route(signal).kind = "dry"
    /\ LET order == dry_run_order(route(signal).order)
       IN /\ objs' = AddObj(order)
          /\ om_orders' = om_orders \cup {order.id}
          /\ result' = IF c = 0 THEN order.id ELSE result
          /\ returned' = returned \cup {order.id}
    /\ nextId' = nextId + 1
    /\ UNCHANGED <<settings, risk, idempotency_keys, mock_orders, mock_balance, exch,
                   pc, cur, placed, last_log>>

\* process_signal -> _live_order, "No API key configured"
ProcessSignalBlocked(c, signal) ==
    /\ pc[c] = "idle"
    /\ nextId <= MaxOrders
    /\ route(signal).kind = "blocked"
    /\ LET order == [route(signal).order EXCEPT
                        !.status = REJECTED,
                        !.error_message = "No API key configured for live trading"]
       IN /\ objs' = AddObj(order)
          /\ result' = IF c = 0 THEN order.id ELSE result
          /\ returned' = returned \cup {order.id}
    /\ nextId' = nextId + 1
    /\ UNCHANGED <<settings, risk, idempotency_keys, om_orders, mock_orders,
                   mock_balance, exch, pc, cur, placed, last_log>>

\* process_signal -> _paper_order / _live_order on the mock client, whose
\* place_order never suspends: the call runs to its end in one step
ProcessSignalMock(c, signal) ==
    /\ pc[c] = "idle"
    /\ nextId <= MaxOrders
    /\ route(signal).kind = "place"
    /\ ClientKind = "mock"
    /\ \E fill \in BOOLEAN :
         LET order == route(signal).order
             risk1 == record_order_submitted(risk, order)
             m == mock_place_order(order, mock_balance, fill)
         IN /\ idempotency_keys' = idempotency_keys \cup {order.idempotency_key}
            /\ objs' = AddObj(m.order)
            /\ om_orders' = om_orders \cup {order.id}
            /\ mock_orders' = IF m.kept THEN mock_orders \cup {order.id} ELSE mock_orders
            /\ mock_balance' = m.balance
            /\ risk' = IF mode = PAPER /\ m.order.status = FILLED
                       THEN record_fill(risk1, m.order) ELSE risk1
            /\ placed' = placed \cup {order.id}
            /\ returned' = returned \cup {order.id}
            /\ result' = IF c = 0 THEN order.id ELSE result
    /\ nextId' = nextId + 1
    /\ UNCHANGED <<settings, exch, pc, cur, last_log>>

\* process_signal -> _paper_order / _live_order on the real client, up to the
\* suspension inside client.place_order
ProcessSignalSubmit(c, signal) ==
    /\ pc[c] = "idle"
    /\ nextId <= MaxOrders
    /\ route(signal).kind = "place"
    /\ ClientKind = "real"
    /\ LET order == route(signal).order
       IN /\ risk' = record_order_submitted(risk, order)
          /\ idempotency_keys' = idempotency_keys \cup {order.idempotency_key}
          /\ objs' = AddObj(order)
          /\ placed' = placed \cup {order.id}
          /\ cur' = [cur EXCEPT ![c] = order.id]
    /\ pc' = [pc EXCEPT ![c] = "placing"]
    /\ nextId' = nextId + 1
    /\ UNCHANGED <<settings, om_orders, mock_orders, mock_balance, exch, result, returned, last_log>>

\* client.place_order answers and _paper_order / _live_order run to their end
PlaceOrderReturn(c, outcome) ==
    /\ pc[c] = "placing"
    /\ pc' = [pc EXCEPT ![c] = "idle"]
    /\ cur' = [cur EXCEPT ![c] = NoId]
    /\ LET id == cur[c]
           order == real_place_order(objs[id], outcome)
       IN IF outcome \in Raising
          THEN IF mode = LIVE
               THEN \* except Exception: REJECTED, never stored in _orders
                    /\ objs' = [objs EXCEPT ![id] =
                                  [@ EXCEPT !.status = REJECTED, !.error_message = outcome]]
                    /\ result' = IF c = 0 THEN id ELSE result
                    /\ returned' = returned \cup {id}
                    /\ UNCHANGED <<om_orders, exch>>
               ELSE \* _paper_order has no handler: process_signal raises
                    /\ result' = IF c = 0 THEN Raised ELSE result
                    /\ UNCHANGED <<objs, om_orders, exch, returned>>
          ELSE /\ objs' = [objs EXCEPT ![id] = order]
               /\ om_orders' = om_orders \cup {id}
               /\ exch' = IF outcome = "ack"
                          THEN [k \in DOMAIN exch \cup {KalshiId(id)} |->
                                  IF k = KalshiId(id)
                                  THEN [status |-> "open", filled_count |-> 0,
                                        quantity |-> order.quantity]
                                  ELSE exch[k]]
                          ELSE exch
               /\ result' = IF c = 0 THEN id ELSE result
               /\ returned' = returned \cup {id}
    /\ UNCHANGED <<settings, risk, idempotency_keys, mock_orders, mock_balance, nextId,
                   placed, last_log>>

\* What client.get_order(kalshi_order_id) hands to sync_order_status: a record
\* with found = FALSE for None
GetOutcomes == {"ok", "not_found", "raise"}
client_get_order(koid, outcome) ==
    IF ClientKind = "mock"
    THEN IF mock_has_order(koid)
         THEN [found |-> TRUE, status |-> objs[koid].status,
               filled_quantity |-> objs[koid].filled_quantity]
         ELSE [found |-> FALSE, status |-> PENDING, filled_quantity |-> 0]
    ELSE IF outcome = "ok" /\ koid \in DOMAIN exch
         THEN [found |-> TRUE, status |-> parse_status(exch[koid].status),
               filled_quantity |-> exch[koid].filled_count]
         ELSE [found |-> FALSE, status |-> PENDING, filled_quantity |-> 0]

\* sync_order_status(order_id); a get_order that raises is caught and logged
SyncOrderStatus(id, outcome) ==
    /\ id \in om_orders
    /\ LET order == objs[id]
           updated == client_get_order(order.kalshi_order_id, outcome)
           synced == [order EXCEPT !.status = updated.status,
                                   !.filled_quantity = updated.filled_quantity]
       IN IF order.kalshi_order_id = NoId \/ ~updated.found
          THEN UNCHANGED <<objs, risk>>
          ELSE IF synced.status = FILLED /\ ~order.filled_at
               THEN /\ objs' = [objs EXCEPT ![id] = [synced EXCEPT !.filled_at = TRUE]]
                    /\ risk' = record_fill(risk, synced)
               ELSE /\ objs' = [objs EXCEPT ![id] = synced]
                    /\ UNCHANGED risk
    /\ UNCHANGED <<settings, idempotency_keys, om_orders, mock_orders, mock_balance,
                   exch, nextId, pc, cur, result, placed, returned, last_log>>

\* client.cancel_order(kalshi_order_id): TRUE on success.  The exchange
\* accepts the DELETE of an order it still holds open.
CancelOutcomes == {"ok", "api_error"}
client_cancel_order(koid, outcome) ==
    IF ClientKind = "mock"
    THEN mock_has_order(koid)
    ELSE outcome = "ok" /\ koid \in DOMAIN exch /\ exch[koid].status = "open"

\* cancel_order(order_id) on an order of _orders: what it returns and the
\* status it leaves the order in
cancel_result(id, outcome) ==
    LET koid == objs[id].kalshi_order_id
        success == IF koid = NoId THEN TRUE ELSE client_cancel_order(koid, outcome)
    IN [success |-> success,
        status |-> IF success THEN CANCELLED ELSE objs[id].status]

\* cancel_order(order_id)
CancelOrder(id, outcome) ==
    /\ id \in om_orders
    /\ LET order == objs[id]
           koid == order.kalshi_order_id
           success == cancel_result(id, outcome).success
       IN /\ objs' = [objs EXCEPT ![id].status = cancel_result(id, outcome).status]
          /\ exch' = IF success /\ koid \in DOMAIN exch
                     THEN [exch EXCEPT ![koid].status = "canceled"] ELSE exch
    /\ UNCHANGED <<settings, risk, idempotency_keys, om_orders, mock_orders, mock_balance,
                   nextId, pc, cur, result, placed, returned, last_log>>

\* The exchange matches n contracts of an open order
ExchangeFill(koid, n) ==
    /\ koid \in DOMAIN exch
    /\ exch[koid].status = "open"
    /\ \/ n = exch[koid].quantity - exch[koid].filled_count
       \/ n = 1 /\ exch[koid].filled_count = 0
    /\ LET filled == exch[koid].filled_count + n
       IN exch' = [exch EXCEPT ![koid].filled_count = filled,
                               ![koid].status =
                                   IF filled = exch[koid].quantity THEN "filled" ELSE "open"]
    /\ UNCHANGED <<settings, risk, idempotency_keys, objs, om_orders, mock_orders,
                   mock_balance, nextId, pc, cur, result, placed, returned, last_log>>

\* RiskManager.record_pnl(ticker, realized_pnl), called when a position closes
\* The levels the day's realized P&L is driven to: at the loss limit, just
\* beyond it, and flat
PnlLevels == {0 - Cents(max_daily_loss_dollars) - 100, 0 - Cents(max_daily_loss_dollars), 0}
RecordPnl(ticker, realized_pnl) ==
    /\ realized_pnl # 0
    /\ risk' = record_pnl(risk, ticker, realized_pnl)
    /\ risk'.daily_realized_pnl \in PnlLevels
    /\ UNCHANGED <<settings, idempotency_keys, objs, om_orders, mock_orders, mock_balance,
                   exch, nextId, pc, cur, result, placed, returned, last_log>>

\* RiskManager.update_unrealized_pnl()
UpdateUnrealizedPnl ==
    /\ risk' = update_unrealized_pnl(risk)
    /\ UNCHANGED <<settings, idempotency_keys, objs, om_orders, mock_orders, mock_balance,
                   exch, nextId, pc, cur, result, placed, returned, last_log>>

\* ------------------------------------------------------------------------
\* The orders table (db/repository.py) and the runner (scheduler/runner.py)
\* ------------------------------------------------------------------------
VARIABLES
    db,            \* the rows of the orders table
    rpc,           \* where the runner is in run()
    cycle,         \* number of runs started
    client_closed, \* client.close() has been awaited on this run's client
    errors,        \* summary["errors"]
    exc,           \* the exception raised in this run, "" when none
    steps,         \* the steps this run has started, in order
    markets,       \* tickers of the markets discovery returned
    to_validate,   \* _validate_signals: the signals its loop has yet to take
    valid_signals, \* _validate_signals: valid
    todo,          \* _process_signals: the sorted signals its loop has yet to take
    n_orders,      \* _process_signals: len(orders)
    first_id       \* the first Order.id this run can create

rvars == <<db, rpc, cycle, client_closed, errors, exc, steps, markets, to_validate,
           valid_signals, todo, n_orders, first_id>>

\* number of runs in one behaviour
MaxCycles == 2

StepOrder ==
    <<"discovery", "snapshot", "evaluation", "validation", "execution", "reporting">>

Range(seq) == {seq[i] : i \in DOMAIN seq}

\* The orders table row of an order: the columns the properties speak of
Row(order) ==
    [id |-> order.id, idempotency_key |-> order.idempotency_key,
     status |-> order.status]

\* save_order that skips an order whose key is already in the table
save_order_keep_first(table, order) ==
    IF \E r \in table : r.idempotency_key = order.idempotency_key /\ r.id # order.id
    THEN table
    ELSE {r \in table : r.id # order.id} \cup {Row(order)}

\* Repository.save_order: INSERT OR REPLACE deletes every row that conflicts
\* on id (PRIMARY KEY) or on idempotency_key (UNIQUE), then inserts
save_order(table, order) ==
    {r \in table : r.id # order.id /\ r.idempotency_key # order.idempotency_key}
        \cup {Row(order)}

\* StrategySignal.meets_thresholds: the validated signal meets every threshold
meets_thresholds(signal) ==
    /\ signal.confidence >= confidence_threshold
    /\ signal.expected_value >= min_expected_value
    /\ signal.backtest_win_rate # NoStat /\ signal.backtest_win_rate >= min_win_rate
    /\ signal.backtest_samples # NoStat /\ signal.backtest_samples >= min_backtest_samples

\* What validate_strategy_for_market can answer for a signal: not valid, or
\* valid with the backtest's win rate (percent) and number of trades
BacktestResults ==
    { [is_valid |-> FALSE, win_rate |-> 60, num_trades |-> 40],
      [is_valid |-> TRUE, win_rate |-> 80, num_trades |-> 40],
      [is_valid |-> TRUE, win_rate |-> 80, num_trades |-> 10] }

\* sorted(signals, key = expected_value, reverse = True): stable
RECURSIVE insert_by_ev(_, _)
insert_by_ev(sorted, signal) ==
    IF sorted = <<>> THEN <<signal>>
    ELSE IF Head(sorted).expected_value >= signal.expected_value
         THEN <<Head(sorted)>> \o insert_by_ev(Tail(sorted), signal)
         ELSE <<signal>> \o sorted

RECURSIVE sorted_by_ev(_)
sorted_by_ev(signals) ==
    IF signals = <<>> THEN <<>>
    ELSE insert_by_ev(sorted_by_ev(SubSeq(signals, 1, Len(signals) - 1)),
                      signals[Len(signals)])

\* _validate_signals whose loop stops one signal short
validation_cut_short(pending) == Len(pending) <= 1

\* _validate_signals: its loop has taken every signal
validation_finished(pending) == pending = <<>>

RunnerInit ==
    /\ db = {}
    /\ rpc = "off"
    /\ cycle = 0
    /\ client_closed = FALSE
    /\ errors = <<>>
    /\ exc = ""
    /\ steps = <<>>
    /\ markets = {}
    /\ to_validate = <<>>
    /\ valid_signals = <<>>
    /\ todo = <<>>
    /\ n_orders = 0
    /\ first_id = 1

omstate == <<risk, idempotency_keys, objs, om_orders, mock_orders, mock_balance, exch,
             nextId, pc, cur, result, placed, returned, last_log>>

\* the except clause of run(): the error goes to the summary and to the alert
\* channel, then the finally clause runs
Except(name) ==
    /\ exc' = name
    /\ errors' = Append(errors, name)
    /\ rpc' = "finally"

\* `run` of the command line: a new TradingRunner (with its own risk manager,
\* order manager and client) whose run() is started
NewRun ==
    /\ rpc \in {"off", "returned", "raised"}
    /\ cycle < MaxCycles
    /\ cycle' = cycle + 1
    /\ rpc' = "initialize"
    /\ risk' = RiskState
    /\ idempotency_keys' = {}
    /\ om_orders' = {}
    /\ mock_orders' = {}
    /\ mock_balance' = Cents(initial_balance)
    /\ pc' = [c \in DOMAIN pc |-> "idle"]
    /\ cur' = [c \in DOMAIN cur |-> NoId]
    /\ result' = NoId
    /\ client_closed' = FALSE
    /\ errors' = <<>>
    /\ exc' = ""
    /\ steps' = <<>>
    /\ markets' = {}
    /\ to_validate' = <<>>
    /\ valid_signals' = <<>>
    /\ todo' = <<>>
    /\ n_orders' = 0
    /\ first_id' = nextId
    /\ UNCHANGED <<settings, objs, exch, nextId, placed, returned, last_log, db>>

\* await self.repository.initialize(), before the try: an error opening the
\* database leaves run() at once
InitializeDb(ok) ==
    /\ rpc = "initialize"
    /\ IF ok THEN rpc' = "reset" /\ UNCHANGED exc
             ELSE rpc' = "raised" /\ exc' = "initialize"
    /\ UNCHANGED <<settings, omstate, db, cycle, client_closed, errors, steps, markets,
                   to_validate, valid_signals, todo, n_orders, first_id>>

\* self.risk_manager.reset_daily_state(); the summary is created
ResetDailyState ==
    /\ rpc = "reset"
    /\ risk' = RiskState
    /\ idempotency_keys' = {}
    /\ errors' = <<>>
    /\ rpc' = "discovery"
    /\ UNCHANGED <<settings, objs, om_orders, mock_orders, mock_balance, exch, nextId, pc,
                   cur, result, placed, returned, last_log, db, cycle, client_closed, exc,
                   steps, markets, to_validate, valid_signals, todo, n_orders, first_id>>

\* Step 1: discover_and_filter; no markets ends the run
Discovery(found, ok) ==
    /\ rpc = "discovery"
    /\ steps' = Append(steps, "discovery")
    /\ IF ~ok THEN Except("discovery") /\ UNCHANGED markets
       ELSE IF found = {}
       THEN /\ errors' = Append(errors, "No tradeable markets found")
            /\ rpc' = "finally"
            /\ UNCHANGED <<markets, exc>>
       ELSE /\ markets' = found
            /\ rpc' = "snapshot"
            /\ UNCHANGED <<errors, exc>>
    /\ UNCHANGED <<settings, omstate, db, cycle, client_closed, to_validate,
                   valid_signals, todo, n_orders, first_id>>

\* Step 2: snapshot_markets, which logs the snapshot that fails and goes on
Snapshot ==
    /\ rpc = "snapshot"
    /\ steps' = Append(steps, "snapshot")
    /\ rpc' = "evaluation"
    /\ UNCHANGED <<settings, omstate, db, cycle, client_closed, errors, exc, markets,
                   to_validate, valid_signals, todo, n_orders, first_id>>

\* The signals of one evaluation: of the chosen ones, each strategy gives at
\* most one per market
OnePerStrategyAndMarket(chosen) ==
    \A a, b \in chosen :
        a.strategy_name = b.strategy_name /\ a.ticker = b.ticker => a = b

\* Step 3: _evaluate_all_strategies keeps the tradeable signals; reading the
\* history can fail
Evaluate(chosen, ok) ==
    /\ rpc = "evaluation"
    /\ steps' = Append(steps, "evaluation")
    /\ OnePerStrategyAndMarket(chosen)
    /\ \A signal \in chosen : signal.ticker \in markets
    /\ IF ok
       THEN /\ to_validate' = SelectSeq(SignalSeq,
                                LAMBDA signal : signal \in chosen /\ is_tradeable(signal))
            /\ rpc' = "validation"
            /\ UNCHANGED <<errors, exc>>
       ELSE Except("evaluation") /\ UNCHANGED to_validate
    /\ UNCHANGED <<settings, omstate, db, cycle, client_closed, markets, valid_signals,
                   todo, n_orders, first_id>>

\* Step 4, one turn of the loop of _validate_signals
ValidateSignal(backtest, ok) ==
    /\ rpc = "validation"
    /\ ~validation_finished(to_validate)
    /\ to_validate # <<>>
    /\ steps' = IF "validation" \in Range(steps) THEN steps
                ELSE Append(steps, "validation")
    /\ IF ok
       THEN LET signal == [Head(to_validate) EXCEPT
                              !.backtest_win_rate = backtest.win_rate,
                              !.backtest_samples = backtest.num_trades]
            IN /\ valid_signals' =
                     IF backtest.is_valid /\ meets_thresholds(signal)
                     THEN Append(valid_signals, signal) ELSE valid_signals
               /\ to_validate' = Tail(to_validate)
               /\ UNCHANGED <<rpc, errors, exc>>
       ELSE Except("validation") /\ UNCHANGED <<to_validate, valid_signals>>
    /\ UNCHANGED <<settings, omstate, db, cycle, client_closed, markets, todo, n_orders,
                   first_id>>

\* _validate_signals returns; no valid signal ends the run, otherwise step 5
\* starts with the signals sorted
ValidationDone ==
    /\ rpc = "validation"
    /\ validation_finished(to_validate)
    /\ IF valid_signals = <<>>
       THEN /\ rpc' = "finally"
            /\ steps' = IF "validation" \in Range(steps) THEN steps
                        ELSE Append(steps, "validation")
            /\ UNCHANGED todo
       ELSE /\ rpc' = "execution"
            /\ steps' = Append(IF "validation" \in Range(steps) THEN steps
                               ELSE Append(steps, "validation"), "execution")
            /\ todo' = sorted_by_ev(valid_signals)
    /\ UNCHANGED <<settings, omstate, db, cycle, client_closed, errors, exc, markets,
                   to_validate, valid_signals, n_orders, first_id>>

\* Step 5, one turn of the loop of _process_signals: the call of
\* process_signal, up to its return or its suspension in client.place_order
RouteSignal(ProcessSignal) ==
    /\ rpc = "execution"
    /\ todo # <<>>
    /\ ProcessSignal
    /\ todo' = Tail(todo)
    /\ rpc' = IF pc'[0] = "placing" THEN "placing"
              ELSE IF result' = NoId THEN "execution" ELSE "save"
    /\ UNCHANGED <<db, cycle, client_closed, errors, exc, steps, markets, to_validate,
                   valid_signals, n_orders, first_id>>

\* client.place_order answers the runner's call of process_signal
RunnerPlaceReturn(outcome) ==
    /\ rpc = "placing"
    /\ PlaceOrderReturn(0, outcome)
    /\ IF result' = Raised
       THEN Except("process_signal")
       ELSE rpc' = "save" /\ UNCHANGED <<errors, exc>>
    /\ UNCHANGED <<db, cycle, client_closed, steps, markets, to_validate, valid_signals,
                   todo, n_orders, first_id>>

\* orders.append(order); await self.repository.save_order(order); the check of
\* the day's trade cap
SaveOrder(ok) ==
    /\ rpc = "save"
    /\ n_orders' = n_orders + 1
    /\ IF ok
       THEN /\ db' = save_order(db, objs[result])
            /\ rpc' = IF n_orders' >= max_trades_per_day THEN "reporting" ELSE "execution"
            /\ UNCHANGED <<errors, exc>>
       ELSE Except("save_order") /\ UNCHANGED db
    /\ UNCHANGED <<settings, omstate, cycle, client_closed, steps, markets, to_validate,
                   valid_signals, todo, first_id>>

\* the loop of _process_signals has taken every signal
ExecutionDone ==
    /\ rpc = "execution"
    /\ todo = <<>>
    /\ rpc' = "reporting"
    /\ UNCHANGED <<settings, omstate, db, cycle, client_closed, errors, exc, steps,
                   markets, to_validate, valid_signals, todo, n_orders, first_id>>

\* summary["orders_filled"]: the orders of the run's list whose status is filled
orders_filled ==
    Cardinality({id \in returned : id >= first_id /\ objs[id].status = FILLED})

\* Step 6: _generate_report, which saves the daily P&L, and the closing alert
Report(ok) ==
    /\ rpc = "reporting"
    /\ steps' = Append(steps, "reporting")
    /\ IF ok THEN rpc' = "finally" /\ UNCHANGED <<errors, exc>>
             ELSE Except("report")
    /\ UNCHANGED <<settings, omstate, db, cycle, client_closed, markets, to_validate,
                   valid_signals, todo, n_orders, first_id>>

\* finally: await self.client.close(); run() returns the summary
Finally ==
    /\ rpc = "finally"
    /\ client_closed' = TRUE
    /\ rpc' = "returned"
    /\ UNCHANGED <<settings, omstate, db, cycle, errors, exc, steps, markets,
                   to_validate, valid_signals, todo, n_orders, first_id>>

\* ------------------------------------------------------------------------
\* Market discovery (core/discovery.py)
\* ------------------------------------------------------------------------
VARIABLES
    disc,          \* one call of MarketDiscovery.discover_and_filter
    scan,          \* one call of the odds scanner
    bt,            \* one call of BacktestHarness.walk_forward_backtest
    reg,           \* one run of auto_map and the mapping registry file
    cli,           \* the .last_opportunities.json file, a scan and an execute command
    snap           \* the background snapshot loop

fvars == <<disc, scan, bt, reg, cli, snap>>

trading_cutoff_minutes == 30
min_volume_24h == 100
max_spread_cents == 10
min_orderbook_depth == 50
category_whitelist == {}
category_blacklist == {"sports"}
market_blacklist == {}

\* Time is counted in half minutes.  A datetime is its wall-clock reading and
\* its tzinfo: aware with the zone's offset from UTC, or naive (offset 0).
HalfMinutes(minutes) == 2 * minutes
Day == HalfMinutes(24 * 60)
NewYorkOffset == 0 - HalfMinutes(5 * 60)

Aware(utc_instant, offset) == [wall |-> utc_instant + offset, aware |-> TRUE, off |-> offset]
Naive(reading) == [wall |-> reading, aware |-> FALSE, off |-> 0]
NoTime == [wall |-> 0 - 1, aware |-> FALSE, off |-> 0]

\* exp_time.astimezone(pytz.utc), or pytz.utc.localize(exp_time) of a naive one
to_utc(dt) == IF dt.aware THEN dt.wall - dt.off ELSE dt.wall
\* datetime.date() of a UTC reading
date(utc_reading) == utc_reading \div Day
\* dt.replace(tzinfo=None): the reading is kept, the zone dropped
strip_tzinfo(dt) == dt.wall

\* OrderBook.spread (None when a side is empty) and OrderBook.total_depth
NoBook == [present |-> FALSE, best_bid |-> NoPrice, best_ask |-> NoPrice, total_depth |-> 0]
Book(bid, ask, depth) ==
    [present |-> TRUE, best_bid |-> bid, best_ask |-> ask, total_depth |-> depth]
has_spread(orderbook) == orderbook.best_bid # NoPrice /\ orderbook.best_ask # NoPrice
spread(orderbook) == orderbook.best_ask - orderbook.best_bid

NoReason == "none"

\* MarketDiscovery._expires_today: the expiry's UTC date against the UTC date
\* of the clock at the time of the call; reference_time is not read
expires_today(market, reference_time, utc_now) ==
    IF market.expiration_time = NoTime THEN FALSE
    ELSE date(to_utc(market.expiration_time)) = date(utc_now)

minutes_to_close(market, reference_time) ==
    TruncDiv(strip_tzinfo(market.close_time) - strip_tzinfo(reference_time), HalfMinutes(1))

too_close_to_expiry(market, reference_time) ==
    minutes_to_close(market, reference_time) < trading_cutoff_minutes

\* MarketDiscovery._check_market: the first check that fails, NoReason when
\* none does.  The categories of the model are whole words, so `c in category`
\* is equality.
check_market(market, reference_time) ==
    IF category_whitelist # {} /\ market.category \notin category_whitelist
        THEN "not_in_whitelist"
    ELSE IF market.category \in category_blacklist THEN "in_blacklist"
    ELSE IF market.ticker \in market_blacklist THEN "market_blacklisted"
    ELSE IF market.volume_24h < min_volume_24h THEN "low_volume"
    ELSE IF ~market.orderbook.present THEN "no_orderbook"
    ELSE IF ~has_spread(market.orderbook) THEN "no_spread"
    ELSE IF spread(market.orderbook) > max_spread_cents THEN "spread_too_wide"
    ELSE IF market.orderbook.total_depth < min_orderbook_depth THEN "low_depth"
    ELSE IF market.close_time # NoTime /\ too_close_to_expiry(market, reference_time)
        THEN "too_close_to_expiry"
    ELSE IF market.status # "active" THEN "not_active"
    ELSE IF market.result # "" THEN "already_settled"
    ELSE NoReason

Reasons ==
    {"not_in_whitelist", "in_blacklist", "market_blacklisted", "low_volume",
     "no_orderbook", "no_spread", "spread_too_wide", "low_depth",
     "too_close_to_expiry", "not_active", "already_settled"}

\* filter_markets: rejection_reasons after the loop over `candidates`
RECURSIVE tally(_, _)
tally(candidates, reference_time) ==
    IF candidates = <<>> THEN [r \in Reasons |-> 0]
    ELSE LET rest == tally(Tail(candidates), reference_time)
             reason == check_market(Head(candidates), reference_time)
         IN IF reason = NoReason THEN rest
            ELSE [rest EXCEPT ![reason] = @ + 1]

\* The calls: reference instants at noon and half a minute before
\* midnight UTC, given naive, in UTC or in the configured zone
\* (America/New_York); the clock read by _expires_today is the reference
\* instant, or a minute later when the market pages took that long.
RefInstants == {Day + (Day \div 2), 2 * Day - 1}
Zones == {"naive", "utc", "local"}
InZone(utc_instant, zone) ==
    CASE zone = "naive" -> Naive(utc_instant)
      [] zone = "utc" -> Aware(utc_instant, 0)
      [] zone = "local" -> Aware(utc_instant, NewYorkOffset)

\* minutes from the reference instant to close_time, in half minutes, -1 for
\* a market without close_time
CloseAfter ==
    {0 - 1, HalfMinutes(20), HalfMinutes(trading_cutoff_minutes) - 1,
     HalfMinutes(trading_cutoff_minutes), HalfMinutes(trading_cutoff_minutes) + 1,
     HalfMinutes(40)}
\* from the reference instant to expiration_time (-1: none)
ExpireAfter == {0 - 1, HalfMinutes(40), Day + HalfMinutes(40)}

GoodBook == Book(49, 51, 200)
Books == {NoBook, Book(49, NoPrice, 100), Book(40, 60, 200), Book(49, 51, 20), GoodBook}

MarketAt(ref, after, zone) == IF after < 0 THEN NoTime ELSE InZone(ref + after, zone)

\* the markets get_markets can return for a call at `ref`, each with the book
\* get_orderbook returns for it: every combination of the fields that are not
\* times with a close_time and an expiry 40 minutes away, and every
\* combination of the times on an otherwise acceptable market
MarketPool(ref) ==
    {[ticker |-> "A", category |-> c, volume_24h |-> v, orderbook |-> b,
      status |-> s, result |-> r,
      close_time |-> InZone(ref + HalfMinutes(40), "utc"),
      expiration_time |-> InZone(ref + HalfMinutes(40), "utc")] :
        c \in {"politics", "sports"}, v \in {10, 500}, b \in Books,
        s \in {"active", "closed"}, r \in {"", "yes"}}
    \cup
    {[ticker |-> "A", category |-> "politics", volume_24h |-> 500,
      orderbook |-> GoodBook, status |-> "active", result |-> "",
      close_time |-> MarketAt(ref, n, z),
      expiration_time |-> MarketAt(ref, e, z)] :
        n \in CloseAfter, e \in ExpireAfter, z \in Zones}

\* the second market of the page
Companions(ref) ==
    {m \in MarketPool(ref) :
        /\ m.close_time = InZone(ref + HalfMinutes(40), "utc")
        /\ m.expiration_time = m.close_time
        /\ m.volume_24h = 500 /\ m.status = "active" /\ m.result = ""
        /\ m.orderbook \in {GoodBook, NoBook}}

DiscoveryIdle ==
    [pc |-> "off", reference_time |-> NoTime, utc_now |-> 0, all_markets |-> <<>>,
     same_day |-> <<>>, filtered |-> <<>>,
     rejection_reasons |-> [r \in Reasons |-> 0]]

DiscoveryInit ==
    \E ref \in RefInstants, zone \in Zones, late \in {0, HalfMinutes(1)} :
       \E first \in MarketPool(ref), second \in Companions(ref) :
          disc = [DiscoveryIdle EXCEPT
                     !.pc = "called",
                     !.reference_time = InZone(ref, zone),
                     !.utc_now = ref + late,
                     !.all_markets = <<first, [second EXCEPT !.ticker = "B"]>>]

\* find_same_day_markets: the markets of the pages that expire today, each
\* with its order book
FindSameDayMarkets ==
    /\ disc.pc = "called"
    /\ disc' = [disc EXCEPT
                   !.pc = "candidates",
                   !.same_day = SelectSeq(disc.all_markets,
                       LAMBDA m : expires_today(m, disc.reference_time, disc.utc_now))]
    /\ UNCHANGED <<scan, bt, reg, cli, snap>>

\* filter_markets on the candidates, with the reference_time of the call
FilterMarkets ==
    /\ disc.pc = "candidates"
    /\ disc' = [disc EXCEPT
                   !.pc = "done",
                   !.filtered = SelectSeq(disc.same_day,
                       LAMBDA m : check_market(m, disc.reference_time) = NoReason),
                   !.rejection_reasons = tally(disc.same_day, disc.reference_time)]
    /\ UNCHANGED <<scan, bt, reg, cli, snap>>

\* ------------------------------------------------------------------------
\* The odds scanner (kalshi_odds/core/scanner.py) in one scan cycle
\* ------------------------------------------------------------------------
\* Scanner.__init__ defaults: the buffer and the edge in basis points, the
\* friction in percent, sizes in contracts, ages in seconds
kalshi_slippage_buffer == 50
sportsbook_execution_friction == 1
min_edge_bps == 50
min_liquidity == 10
max_staleness_seconds == 60

\* Probabilities, prices and edges are counted in basis points: a price in
\* cents is 100 of them.  A quote's no-vig probability is in whole percent.
BpsOfCents(cents) == cents * 100
One == BpsOfCents(100)

KALSHI_CHEAP == "kalshi_cheap"
KALSHI_RICH == "kalshi_rich"

\* KalshiTopOfBook.is_valid; prices in cents, NoStat for None
is_valid(tob) ==
    /\ tob.yes_bid # NoStat
    /\ tob.yes_ask # NoStat
    /\ tob.yes_bid < tob.yes_ask
    /\ tob.yes_bid_size > 0
    /\ tob.yes_ask_size > 0

\* min(1.0, yes_ask + buffer) and max(0.0, yes_bid - buffer)
kalshi_yes_ask_adj(tob) ==
    Min(One, BpsOfCents(tob.yes_ask) + kalshi_slippage_buffer)
kalshi_yes_bid_adj(tob) ==
    Max(0, BpsOfCents(tob.yes_bid) - kalshi_slippage_buffer)

\* normalized.p_no_vig * (1 - friction)
sportsbook_p_adj(quote) == quote.p_no_vig * (100 - sportsbook_execution_friction)

build_alert(market_key, direction, price, liquidity, quote, edge) ==
    [market_key |-> market_key, direction |-> direction, kalshi_price |-> price,
     kalshi_liquidity |-> liquidity, sportsbook_bookmaker |-> quote.bookmaker,
     sportsbook_p_no_vig |-> quote.p_no_vig, edge |-> edge]

\* the body of the loop over odds_quotes for one quote: the alerts it appends
quote_alerts(market_key, tob, quote) ==
    IF quote.age > max_staleness_seconds \/ quote.p_no_vig = NoStat THEN <<>>
    ELSE LET edge_cheap == sportsbook_p_adj(quote) - kalshi_yes_ask_adj(tob)
             edge_rich == kalshi_yes_bid_adj(tob) - sportsbook_p_adj(quote)
             cheap == IF edge_cheap >= min_edge_bps
                      THEN <<build_alert(market_key, KALSHI_CHEAP, kalshi_yes_ask_adj(tob),
                                         tob.yes_ask_size, quote, edge_cheap)>>
                      ELSE <<>>
             rich == IF /\ tob.yes_bid # 0
                        /\ tob.yes_bid_size >= min_liquidity
                        /\ edge_rich >= min_edge_bps
                     THEN <<build_alert(market_key, KALSHI_RICH, kalshi_yes_bid_adj(tob),
                                        tob.yes_bid_size, quote, edge_rich)>>
                     ELSE <<>>
         IN cheap \o rich

RECURSIVE loop_over_quotes(_, _, _)
loop_over_quotes(market_key, tob, odds_quotes) ==
    IF odds_quotes = <<>> THEN <<>>
    ELSE quote_alerts(market_key, tob, Head(odds_quotes))
            \o loop_over_quotes(market_key, tob, Tail(odds_quotes))

\* Scanner.compare
compare(market_key, tob, odds_quotes) ==
    IF tob.age > max_staleness_seconds THEN <<>>
    ELSE IF ~is_valid(tob) THEN <<>>
    ELSE IF tob.yes_ask = 0 THEN <<>>
    ELSE IF tob.yes_ask_size < min_liquidity THEN <<>>
    ELSE loop_over_quotes(market_key, tob, odds_quotes)

\* aggregate_opportunities: the keys of `groups` in the order of insertion
RECURSIVE group_keys(_)
group_keys(alerts) ==
    IF alerts = <<>> THEN <<>>
    ELSE LET before == group_keys(SubSeq(alerts, 1, Len(alerts) - 1))
             a == alerts[Len(alerts)]
             key == <<a.market_key, a.direction>>
         IN IF key \in Range(before) THEN before ELSE Append(before, key)

group_of(alerts, key) ==
    SelectSeq(alerts, LAMBDA a : <<a.market_key, a.direction>> = key)

\* list.sort() of a list of numbers
RECURSIVE sorted_numbers(_)
sorted_numbers(xs) ==
    IF xs = <<>> THEN <<>>
    ELSE LET x == Head(xs)
             rest == sorted_numbers(Tail(xs))
         IN SelectSeq(rest, LAMBDA y : y < x) \o <<x>> \o SelectSeq(rest, LAMBDA y : y >= x)

\* twice the median, as the code takes it from the sorted list
twice_median(xs) ==
    LET s == sorted_numbers(xs)
        mid == Len(s) \div 2
    IN IF Len(s) % 2 = 0 THEN s[mid + 1] + s[mid] ELSE 2 * s[mid + 1]

\* math.sqrt, exact on the sizes of the model (squares)
sqrt(n) == CHOOSE r \in 0..n : r * r = n
\* 1 + math.log1p(book_count) to four decimals, for 1, 2, 3 and 4 books
one_plus_log1p == <<16931, 20986, 23863, 26094>>

rank_score(edge, kalshi_liquidity, book_count) ==
    edge * sqrt(Max(1, kalshi_liquidity)) * one_plus_log1p[book_count]

opportunity(alerts, key) ==
    LET group == group_of(alerts, key)
        a0 == group[1]
        edge == twice_median([i \in DOMAIN group |-> group[i].edge])
    IN [market_key |-> key[1], direction |-> key[2],
        kalshi_liquidity |-> a0.kalshi_liquidity, book_count |-> Len(group),
        edge |-> edge,
        rank_score |-> rank_score(edge, a0.kalshi_liquidity, Len(group))]

\* opportunities.sort(key=rank_score, reverse=True): a stable sort, elements of
\* equal score stay in the order they had
RECURSIVE sort_by_rank(_)
sort_by_rank(opportunities) ==
    IF opportunities = <<>> THEN <<>>
    ELSE LET o == Head(opportunities)
             rest == sort_by_rank(Tail(opportunities))
         IN SelectSeq(rest, LAMBDA p : p.rank_score > o.rank_score)
               \o <<o>> \o SelectSeq(rest, LAMBDA p : p.rank_score <= o.rank_score)

aggregate_opportunities(alerts) ==
    LET keys == group_keys(alerts)
    IN sort_by_rank([i \in DOMAIN keys |-> opportunity(alerts, keys[i])])

\* The scan cycles: two mapped markets, taken in either order; each
\* with a top of book and its relevant quotes.
MarketKeys == <<"nba_a", "nba_b">>
Tob(bid, ask, bid_size, ask_size, age) ==
    [yes_bid |-> bid, yes_ask |-> ask, yes_bid_size |-> bid_size,
     yes_ask_size |-> ask_size, age |-> age]
Quote(bookmaker, p, age) == [bookmaker |-> bookmaker, p_no_vig |-> p, age |-> age]

TobPool ==
    {Tob(p[1], p[2], bs, as, age) :
        p \in {<<40, 45>>, <<55, 60>>}, bs \in {4, 16}, as \in {4, 16}, age \in {5, 61}}
    \cup {Tob(45, 45, 16, 16, 5), Tob(40, 45, 0, 16, 5), Tob(NoStat, 45, 0, 16, 5)}
QuotePool ==
    {<<Quote("book1", p, age)>> : p \in {30, 50, 70}, age \in {5, 61}}
    \cup {<<Quote("book1", p, 5), Quote("book2", q, 5)>> :
             p \in {30, 70}, q \in {30, 50, 70}}
    \cup {<<Quote("book1", NoStat, 5)>>}
SecondTobs == {Tob(55, 60, 16, 16, 5), Tob(55, 60, 4, 16, 5), Tob(40, 45, 16, 4, 5)}
SecondQuotes == {<<Quote("book1", 30, 5)>>, <<Quote("book1", 70, 5)>>}

ScanIdle ==
    [pc |-> "off", market_keys |-> <<>>, tob |-> <<>>, quotes |-> <<>>,
     all_alerts |-> <<>>, opportunities |-> <<>>]

ScanInit ==
    \E first \in TobPool, q1 \in QuotePool, second \in SecondTobs, q2 \in SecondQuotes :
       \E order \in {MarketKeys, <<MarketKeys[2], MarketKeys[1]>>} :
          scan = [ScanIdle EXCEPT
                     !.pc = "scanning",
                     !.market_keys = order,
                     !.tob = (MarketKeys[1] :> first) @@ (MarketKeys[2] :> second),
                     !.quotes = (MarketKeys[1] :> q1) @@ (MarketKeys[2] :> q2)]

\* _run_scan_cycle, one turn of the loop over the mapped markets
Compare ==
    /\ scan.pc = "scanning"
    /\ scan.market_keys # <<>>
    /\ LET market_key == Head(scan.market_keys)
       IN scan' = [scan EXCEPT
                      !.market_keys = Tail(scan.market_keys),
                      !.all_alerts = scan.all_alerts
                          \o compare(market_key, scan.tob[market_key],
                                     scan.quotes[market_key])]
    /\ UNCHANGED <<disc, bt, reg, cli, snap>>

\* _run_scan_cycle after the loop
AggregateOpportunities ==
    /\ scan.pc = "scanning"
    /\ scan.market_keys = <<>>
    /\ scan' = [scan EXCEPT
                   !.pc = "done",
                   !.opportunities = aggregate_opportunities(scan.all_alerts)]
    /\ UNCHANGED <<disc, bt, reg, cli, snap>>

\* ------------------------------------------------------------------------
\* The walk-forward backtest (core/backtest.py)
\* ------------------------------------------------------------------------
max_drawdown_percent == 20
min_train_samples == 20
min_test_samples == 10
default_n_folds == 5

\* what strategy.backtest returns for a fold: validity, number of trades, win
\* rate and maximum drawdown in percent
FoldResult(valid, trades, win_rate, drawdown) ==
    [is_valid |-> valid, num_trades |-> trades, win_rate |-> win_rate,
     max_drawdown |-> drawdown]

\* the folds of walk_forward_backtest for len(snapshots) = n: their number and
\* the length of each
fold_count(n) ==
    IF n \div default_n_folds < min_test_samples THEN n \div min_test_samples
    ELSE default_n_folds
fold_size(n) ==
    IF n \div default_n_folds < min_test_samples THEN n \div Max(fold_count(n), 1)
    ELSE n \div default_n_folds
fold_length(n, i) ==
    IF i = fold_count(n) - 1 THEN n - i * fold_size(n) ELSE fold_size(n)

\* the loop over the folds, from fold i on: the sums it leaves
RECURSIVE run_folds(_, _, _, _)
run_folds(n, backtests, i, acc) ==
    IF i >= fold_count(n) THEN acc
    ELSE IF fold_length(n, i) < min_test_samples THEN run_folds(n, backtests, i + 1, acc)
    ELSE LET fold == backtests[i + 1]
             counted == fold.is_valid /\ fold.num_trades > 0
             wins == TruncDiv(fold.win_rate * fold.num_trades, 100)
         IN run_folds(n, backtests, i + 1,
               IF counted
               THEN [all_wins |-> acc.all_wins + wins,
                     all_trades |-> acc.all_trades + fold.num_trades,
                     max_dd |-> Max(acc.max_dd, fold.max_drawdown),
                     folds |-> acc.folds + 1]
               ELSE [acc EXCEPT !.folds = @ + 1])

win_rate_met(all_wins, all_trades) == all_wins * 100 >= min_win_rate * all_trades
trades_always_met(all_trades) == TRUE
trades_met(all_trades) == all_trades >= min_backtest_samples
drawdown_met(max_dd) == max_dd <= max_drawdown_percent

failure_reason(all_wins, all_trades, max_dd) ==
    IF ~win_rate_met(all_wins, all_trades) THEN "Win rate"
    ELSE IF ~trades_met(all_trades) THEN "Trades"
    ELSE IF ~drawdown_met(max_dd) THEN "Max DD"
    ELSE ""

WalkForwardResult(valid, meets, reason, sums) ==
    [is_valid |-> valid, meets_thresholds |-> meets, failure_reason |-> reason,
     total_trades |-> sums.all_trades, all_wins |-> sums.all_wins,
     max_drawdown |-> sums.max_dd, fold_results |-> sums.folds]

NoSums == [all_wins |-> 0, all_trades |-> 0, max_dd |-> 0, folds |-> 0]

\* BacktestHarness.walk_forward_backtest
walk_forward_backtest(n, backtests) ==
    IF n < min_train_samples + min_test_samples
    THEN WalkForwardResult(FALSE, FALSE, "Insufficient data for walk-forward", NoSums)
    ELSE LET sums == run_folds(n, backtests, 0, NoSums)
         IN IF sums.all_trades = 0
            THEN WalkForwardResult(FALSE, FALSE, "No trades generated across folds",
                                   [NoSums EXCEPT !.folds = sums.folds])
            ELSE WalkForwardResult(
                    TRUE,
                    /\ win_rate_met(sums.all_wins, sums.all_trades)
                    /\ trades_met(sums.all_trades)
                    /\ drawdown_met(sums.max_dd),
                    failure_reason(sums.all_wins, sums.all_trades, sums.max_dd),
                    sums)

\* The calls: series of 20, 35 and 60 snapshots, and for each fold one
\* of these outcomes of strategy.backtest
SampleSizes == {20, 35, 60}
FoldPool ==
    {FoldResult(FALSE, 0, 0, 0), FoldResult(TRUE, 0, 0, 0),
     FoldResult(TRUE, 10, 70, 10), FoldResult(TRUE, 10, 50, 10),
     FoldResult(TRUE, 10, 100, 25), FoldResult(TRUE, 5, 100, 10)}

\* BacktestHarness.validate_strategy_for_market: is_valid, computed from the
\* number of snapshots and the result of backtest_strategy over all of them
validate_strategy_for_market(n, single) ==
    IF n < min_backtest_samples THEN FALSE
    ELSE IF ~single.is_valid THEN FALSE
    ELSE IF single.num_trades < 5 THEN FALSE
    ELSE IF single.win_rate < min_win_rate THEN FALSE
    ELSE IF single.max_drawdown > max_drawdown_percent THEN FALSE
    ELSE TRUE

\* one turn of the loop of _validate_signals: whether the signal is kept
retained(signal, n, single) ==
    /\ validate_strategy_for_market(n, single)
    /\ meets_thresholds([signal EXCEPT !.backtest_win_rate = single.win_rate,
                                        !.backtest_samples = single.num_trades])

\* what backtest_strategy can give over the whole series
SinglePool ==
    {FoldResult(TRUE, 30, 70, 10), FoldResult(TRUE, 10, 80, 10), FoldResult(FALSE, 0, 0, 0)}

BtIdle == [pc |-> "off", n_snapshots |-> 0, backtests |-> <<>>,
           result |-> WalkForwardResult(FALSE, FALSE, "", NoSums),
           vpc |-> "off", single |-> FoldResult(FALSE, 0, 0, 0), kept |-> FALSE]

BtInit ==
    \E n \in SampleSizes, backtests \in [1..default_n_folds -> FoldPool],
       single \in SinglePool :
       bt = [BtIdle EXCEPT !.pc = "called", !.n_snapshots = n, !.backtests = backtests,
                           !.vpc = "called", !.single = single]

WalkForwardBacktest ==
    /\ bt.pc = "called"
    /\ bt' = [bt EXCEPT !.pc = "done",
                        !.result = walk_forward_backtest(bt.n_snapshots, bt.backtests)]
    /\ UNCHANGED <<disc, scan, reg, cli, snap>>

\* _validate_signals validates a signal of the strategy on the same series
ValidateOnSeries ==
    /\ bt.vpc = "called"
    /\ bt' = [bt EXCEPT !.vpc = "done",
                        !.kept = retained(SignalSeq[1], bt.n_snapshots, bt.single)]
    /\ UNCHANGED <<disc, scan, reg, cli, snap>>

\* ------------------------------------------------------------------------
\* The auto-mapper and the mapping registry file (kalshi_odds/core/automapper.py)
\* ------------------------------------------------------------------------
\* TEAM_CODE_KEYWORDS and _team_matches: the team names of the model are the
\* first keyword of their code, so the substring test is equality
TEAM_CODE_KEYWORDS == [HOU |-> "Houston", OKC |-> "Oklahoma City", SEA |-> "Seattle"]
team_matches(code, team_name) == team_name # "" /\ TEAM_CODE_KEYWORDS[code] = team_name

\* A ticker is its parts between the dashes: the series, the two team codes of
\* the game and the side.  parse_kalshi_ticker and _game_codes_from_ticker give
\* nothing for a ticker with fewer than three parts.
Ticker(id, parts, code_a, code_b, side_code) ==
    [contract_id |-> id, parts |-> parts, code_a |-> code_a, code_b |-> code_b,
     side_code |-> side_code]
parse_kalshi_ticker(ticker) == ticker.parts >= 3

\* _match_event_to_codes: (name_for_a, name_for_b), <<>> when the event is
\* not the game
match_event_to_codes(ev, code_a, code_b) ==
    IF team_matches(code_a, ev.home_team) /\ team_matches(code_b, ev.away_team)
        THEN <<ev.home_team, ev.away_team>>
    ELSE IF team_matches(code_a, ev.away_team) /\ team_matches(code_b, ev.home_team)
        THEN <<ev.away_team, ev.home_team>>
    ELSE <<>>

market_key_from_ticker(ticker) == <<"nba", ticker.code_a, ticker.code_b, ticker.side_code>>

\* A registry row: market_key, kalshi.contract_id, odds.event_id,
\* odds.selection, and `note`, any further key a row of the file carries
\* ("" when it carries none).
Row3(market_key, contract_id, event_id, selection, note) ==
    [market_key |-> market_key, contract_id |-> contract_id, event_id |-> event_id,
     selection |-> selection, note |-> note]

\* the entry build_mappings computes for a contract and the event it matched
fresh_entry(ticker, ev) ==
    LET names == match_event_to_codes(ev, ticker.code_a, ticker.code_b)
    IN Row3(market_key_from_ticker(ticker), ticker.contract_id, ev.id,
            IF ticker.side_code = ticker.code_a THEN names[1] ELSE names[2], "")

\* {**existing_by_contract[ticker], **entry}: the keys of the new entry win,
\* the other keys of the old row stay
merged_entry(old, entry) == [entry EXCEPT !.note = old.note]
replaced_entry(old, entry) == entry

\* existing_by_contract[contract_id]: the last row of the file with it
existing_by_contract(existing_list, contract_id) ==
    LET at == {i \in DOMAIN existing_list : existing_list[i].contract_id = contract_id}
    IN existing_list[CHOOSE i \in at : \A j \in at : j <= i]

\* the loop over the events for one contract: the first event that matches
first_match(ticker, events) ==
    LET at == {i \in DOMAIN events :
                  match_event_to_codes(events[i], ticker.code_a, ticker.code_b) # <<>>}
    IN IF at = {} THEN 0 ELSE CHOOSE i \in at : \A j \in at : i <= j

\* the loop over the contracts: new_mappings and seen_contracts
RECURSIVE match_contracts(_, _, _, _)
match_contracts(contracts, events, existing_list, acc) ==
    IF contracts = <<>> THEN acc
    ELSE LET ticker == Head(contracts)
             i == IF parse_kalshi_ticker(ticker) THEN first_match(ticker, events) ELSE 0
             known == \E k \in DOMAIN existing_list :
                         existing_list[k].contract_id = ticker.contract_id
             entry == IF known
                      THEN merged_entry(
                              existing_by_contract(existing_list, ticker.contract_id),
                              fresh_entry(ticker, events[i]))
                      ELSE fresh_entry(ticker, events[i])
         IN match_contracts(Tail(contracts), events, existing_list,
               IF ticker.contract_id \in acc.seen_contracts \/ i = 0 THEN acc
               ELSE [new_mappings |-> Append(acc.new_mappings, entry),
                     seen_contracts |-> acc.seen_contracts \cup {ticker.contract_id}])

\* build_mappings with merge_with_existing=True
build_mappings(contracts, events, existing_list) ==
    LET done == match_contracts(contracts, events, existing_list,
                                [new_mappings |-> <<>>, seen_contracts |-> {}])
        kept == SelectSeq(existing_list,
                          LAMBDA e : e.contract_id \notin done.seen_contracts)
    IN kept \o done.new_mappings

\* The file: the rows in it, and whether it is a whole document
WholeFile(rows) == [rows |-> rows, whole |-> TRUE]

TickerPool ==
    {Ticker("G-HOUOKC-OKC", 3, "HOU", "OKC", "OKC"),
     Ticker("G-HOUOKC-HOU", 3, "HOU", "OKC", "HOU"),
     Ticker("G-SEAOKC-SEA", 3, "SEA", "OKC", "SEA"),
     Ticker("GHOUOKC", 1, "", "", "")}
EventPool ==
    {[id |-> "e1", home_team |-> "Houston", away_team |-> "Oklahoma City"],
     [id |-> "e2", home_team |-> "Oklahoma City", away_team |-> "Houston"],
     [id |-> "e3", home_team |-> "Oklahoma City", away_team |-> "Seattle"]}
ExistingPool ==
    {Row3("manual", id, "e0", "Oklahoma City", note) :
        id \in {"G-HOUOKC-OKC", "G-HOUOKC-HOU", "G-OLD-OLD"}, note \in {"", "checked by hand"}}

MaxContracts == 2
MaxEvents == 2
MaxRows == 2

SeqsUpTo(S, n) == UNION {[1..k -> S] : k \in 0..n}

RegIdle ==
    [pc |-> "off", contracts |-> <<>>, events |-> <<>>, previous |-> <<>>,
     mappings |-> <<>>, file |-> WholeFile(<<>>)]

\* the registry before the run holds no contract in two rows
RegInit ==
    \E contracts \in SeqsUpTo(TickerPool, MaxContracts),
       events \in SeqsUpTo(EventPool, MaxEvents),
       existing \in SeqsUpTo(ExistingPool, MaxRows) :
          /\ \A i, j \in DOMAIN existing :
                existing[i].contract_id = existing[j].contract_id => i = j
          /\ reg = [RegIdle EXCEPT !.pc = "called", !.contracts = contracts,
                                   !.events = events, !.previous = existing,
                                   !.file = WholeFile(existing)]

\* auto_map: await build_mappings(...), which reads the file
BuildMappings ==
    /\ reg.pc = "called"
    /\ reg.file.whole
    /\ reg' = [reg EXCEPT
                  !.pc = "built",
                  !.mappings = build_mappings(reg.contracts, reg.events, reg.file.rows)]
    /\ UNCHANGED <<disc, scan, bt, cli, snap>>

\* auto_map: nothing is written when no mapping was built
AutoMapReturn ==
    /\ reg.pc = "built"
    /\ reg.mappings = <<>>
    /\ reg' = [reg EXCEPT !.pc = "done"]
    /\ UNCHANGED <<disc, scan, bt, cli, snap>>

\* write_mappings: open(mapping_path, "w") empties the file
WriteOpen ==
    /\ reg.pc = "built"
    /\ reg.mappings # <<>>
    /\ reg' = [reg EXCEPT !.pc = "writing", !.file = [rows |-> <<>>, whole |-> FALSE]]
    /\ UNCHANGED <<disc, scan, bt, cli, snap>>

\* write_mappings: yaml.safe_dump lets some more of the document reach the file
WriteSome ==
    /\ reg.pc = "writing"
    /\ Len(reg.file.rows) < Len(reg.mappings)
    /\ reg' = [reg EXCEPT
                  !.file.rows = Append(@, reg.mappings[Len(reg.file.rows) + 1])]
    /\ UNCHANGED <<disc, scan, bt, cli, snap>>

\* write_mappings: the with block is left, the file is closed
WriteClose ==
    /\ reg.pc = "writing"
    /\ reg' = [reg EXCEPT !.pc = "done", !.file = WholeFile(reg.mappings)]
    /\ UNCHANGED <<disc, scan, bt, cli, snap>>

\* the process is killed while write_mappings runs
CrashInWrite ==
    /\ reg.pc = "writing"
    /\ reg' = [reg EXCEPT !.pc = "crashed"]
    /\ UNCHANGED <<disc, scan, bt, cli, snap>>

\* ------------------------------------------------------------------------
\* The scan's scratch file and the execute command (kalshi_odds/cli.py)
\* ------------------------------------------------------------------------
\* an Opportunity, as far as execute reads it
Opp(kalshi_ticker, direction, kalshi_price_cents, max_shares) ==
    [kalshi_ticker |-> kalshi_ticker, direction |-> direction,
     kalshi_price_cents |-> kalshi_price_cents, max_shares |-> max_shares]

OppPool ==
    {Opp("KX-A", KALSHI_CHEAP, 45, 50),
     Opp("KX-B", KALSHI_RICH, 100, 200),
     Opp("KX-C", KALSHI_CHEAP, 0, 0)}

MaxOpps == 2
SharesPool == {0, 100, 300}

\* _load_last_opportunities: [] without a file; json.load raises on a file
\* that is not a whole document
load_fails(file) == ~file.whole
load_last_opportunities(file) == file.rows

\* execute: the first exit, before anything is read
execution_refused(execution_enabled, dry_run) == ~execution_enabled /\ ~dry_run

\* execute: shares capped at the opportunity's max_shares
capped_shares(shares, opp) == IF shares > opp.max_shares THEN opp.max_shares ELSE shares

\* execute: a real order needs --confirm
confirm_never_missing(dry_run, confirm) == FALSE
confirm_missing(dry_run, confirm) == ~dry_run /\ ~confirm

\* execute._place: the order handed to kalshi.place_order
placed_order(opp, shares) ==
    [ticker |-> opp.kalshi_ticker, side |-> "yes",
     action |-> IF opp.direction = KALSHI_RICH THEN "sell" ELSE "buy",
     count |-> shares,
     yes_price |-> Max(1, Min(99, opp.kalshi_price_cents))]

\* execute, from its first line to its return, exit or exception: what it read
\* and the orders it handed to the exchange
execute(c, file) ==
    LET none == [exit |-> "exit 1", seen |-> <<>>, read |-> FALSE, submitted |-> <<>>]
        opportunities == load_last_opportunities(file)
        read == [none EXCEPT !.seen = file, !.read = TRUE]
        opp == opportunities[c.index]
        shares == capped_shares(c.shares, opp)
    IN IF execution_refused(c.execution_enabled, c.dry_run) THEN none
       ELSE IF load_fails(file) THEN [read EXCEPT !.exit = "JSONDecodeError"]
       ELSE IF opportunities = <<>> THEN read
       ELSE IF c.index < 1 \/ c.index > Len(opportunities) THEN read
       ELSE IF confirm_missing(c.dry_run, c.confirm) THEN read
       ELSE IF c.dry_run THEN [read EXCEPT !.exit = "return"]
       ELSE [read EXCEPT !.exit = "placed", !.submitted = <<placed_order(opp, shares)>>]

CliIdle ==
    [wpc |-> "off", xpc |-> "off", previous |-> <<>>, new |-> <<>>,
     file |-> WholeFile(<<>>),
     command |-> [execution_enabled |-> FALSE, dry_run |-> TRUE, confirm |-> FALSE,
                  shares |-> 100, index |-> 1],
     outcome |-> [exit |-> "", seen |-> <<>>, read |-> FALSE, submitted |-> <<>>]]

\* a scan cycle of `run` has found opportunities, over the file the scan
\* before it left; an execute command is started in another process
CliInit ==
    \E previous \in SeqsUpTo(OppPool, MaxOpps),
       new \in SeqsUpTo(OppPool, MaxOpps) \ {<<>>},
       execution_enabled \in BOOLEAN, dry_run \in BOOLEAN, confirm \in BOOLEAN,
       shares \in SharesPool, index \in 0..MaxOpps :
          cli = [CliIdle EXCEPT
                    !.wpc = "scanned", !.xpc = "called",
                    !.previous = previous, !.new = new, !.file = WholeFile(previous),
                    !.command = [execution_enabled |-> execution_enabled,
                                 dry_run |-> dry_run, confirm |-> confirm,
                                 shares |-> shares, index |-> index]]

\* _save_last_opportunities: open(LAST_OPPORTUNITIES_FILE, "w") empties the file
SaveOpen ==
    /\ cli.wpc = "scanned"
    /\ cli' = [cli EXCEPT !.wpc = "writing", !.file = [rows |-> <<>>, whole |-> FALSE]]
    /\ UNCHANGED <<disc, scan, bt, reg, snap>>

\* _save_last_opportunities: json.dump lets some more of the list reach the file
SaveSome ==
    /\ cli.wpc = "writing"
    /\ Len(cli.file.rows) < Len(cli.new)
    /\ cli' = [cli EXCEPT !.file.rows = Append(@, cli.new[Len(cli.file.rows) + 1])]
    /\ UNCHANGED <<disc, scan, bt, reg, snap>>

\* _save_last_opportunities: the with block is left, the file is closed
SaveClose ==
    /\ cli.wpc = "writing"
    /\ cli' = [cli EXCEPT !.wpc = "saved", !.file = WholeFile(cli.new)]
    /\ UNCHANGED <<disc, scan, bt, reg, snap>>

\* the execute command runs; place_order may raise, and then the order may or
\* may not have reached the exchange
Execute ==
    /\ cli.xpc = "called"
    /\ \E raised \in BOOLEAN, reached \in BOOLEAN :
          LET out == execute(cli.command, cli.file)
          IN /\ raised => out.exit = "placed"
             /\ reached => raised
             /\ cli' = [cli EXCEPT
                          !.xpc = "ended",
                          !.outcome =
                              IF raised
                              THEN [out EXCEPT !.exit = "exit 1",
                                               !.submitted = IF reached THEN @ ELSE <<>>]
                              ELSE out]
    /\ UNCHANGED <<disc, scan, bt, reg, snap>>

\* ------------------------------------------------------------------------
\* The background snapshot loop (core/snapshotter.py)
\* ------------------------------------------------------------------------
\* settings.snapshot_interval_minutes
snapshot_interval_minutes == 5
\* the back-off of _snapshot_loop after an error, in seconds
recovery_delay_seconds == 60

MaxTickers == 2
\* snapshots are counted modulo CaptureMarks: a capture always changes the mark
CaptureMarks == 3

\* _snapshot_loop: where the task goes when an await inside the try block
\* raises; a task whose loop breaks is over
on_exception_break(name) == "ended"
on_exception(name) == IF name = "CancelledError" THEN "ended" ELSE "recover"

\* `while self._running`, evaluated when the task comes back from a sleep
loop_test(running) == IF running THEN "fetch" ELSE "ended"

\* The task is suspended at one of its awaits:
\*   "created"  created by create_task, not started yet
\*   "fetch"    client.get_market(ticker), `left` tickers still to fetch
\*   "snapshot" snapshot_market(market) inside snapshot_markets, `left`
\*              markets still to snapshot
\*   "sleep"    asyncio.sleep(interval_minutes * 60)
\*   "recover"  asyncio.sleep(60) in the except clause
\* or it is "ended"; "none" before any task was created.
SnapIdle ==
    [running |-> FALSE, lpc |-> "none", tickers |-> 0, left |-> 0, markets |-> 0,
     wait |-> 0, cancel |-> FALSE, stopping |-> FALSE, captured |-> 0, errors |-> 0]

SnapInit == \E n \in 1..MaxTickers : snap = [SnapIdle EXCEPT !.tickers = n]

\* start_continuous_snapshotting(tickers): nothing when already running
StartContinuousSnapshotting ==
    /\ ~snap.stopping
    /\ ~snap.running
    /\ snap' = [snap EXCEPT !.running = TRUE, !.lpc = "created", !.cancel = FALSE]
    /\ UNCHANGED <<disc, scan, bt, reg, cli>>

\* the task starts, or comes back from a sleep: the loop test and, when it
\* holds, the first get_market of the iteration
SleepElapsed ==
    /\ snap.lpc \in {"created", "sleep", "recover"}
    /\ ~snap.cancel
    /\ snap' = [snap EXCEPT !.lpc = loop_test(snap.running), !.left = snap.tickers,
                            !.markets = 0, !.wait = 0]
    /\ UNCHANGED <<disc, scan, bt, reg, cli>>

\* the position after the last get_market: snapshot_markets(markets), and with
\* no market the sleep of the interval
after_fetch(s) ==
    IF s.left > 0 THEN s
    ELSE IF s.markets > 0 THEN [s EXCEPT !.lpc = "snapshot", !.left = s.markets]
    ELSE [s EXCEPT !.lpc = "sleep", !.wait = snapshot_interval_minutes * 60]

\* client.get_market(ticker) answers: a market, None, or an exception, which
\* ends the iteration in the except clause
FetchMarket(outcome) ==
    /\ snap.lpc = "fetch"
    /\ ~snap.cancel
    /\ snap' =
          IF outcome = "raise"
          THEN [snap EXCEPT !.lpc = on_exception("Exception"),
                            !.errors = (@ + 1) % CaptureMarks,
                            !.wait = recovery_delay_seconds]
          ELSE after_fetch([snap EXCEPT !.left = @ - 1,
                                        !.markets = IF outcome = "market" THEN @ + 1 ELSE @])
    /\ UNCHANGED <<disc, scan, bt, reg, cli>>

\* snapshot_market(market) inside snapshot_markets: the snapshot is saved, or
\* there is no orderbook, or an exception that snapshot_markets logs and drops
SnapshotMarket(outcome) ==
    /\ snap.lpc = "snapshot"
    /\ ~snap.cancel
    /\ LET s == [snap EXCEPT !.left = @ - 1,
                             !.captured = IF outcome = "saved"
                                          THEN (@ + 1) % CaptureMarks ELSE @]
       IN snap' = IF s.left > 0 THEN s
                  ELSE [s EXCEPT !.lpc = "sleep", !.wait = snapshot_interval_minutes * 60]
    /\ UNCHANGED <<disc, scan, bt, reg, cli>>

\* stop(): _running = False, the task is cancelled and awaited
Stop ==
    /\ snap.running
    /\ snap' = [snap EXCEPT !.running = FALSE,
                            !.cancel = snap.lpc \notin {"none", "ended"},
                            !.stopping = snap.lpc \notin {"none", "ended"}]
    /\ UNCHANGED <<disc, scan, bt, reg, cli>>

\* the task's next step after cancel(): CancelledError is raised at the await
\* it was suspended in; the loop breaks (or, in the except clause, the error
\* leaves the task), and the await in stop() returns
DeliverCancel ==
    /\ snap.cancel
    /\ snap' = [snap EXCEPT !.lpc = IF snap.lpc \in {"created", "recover"} THEN "ended"
                                    ELSE on_exception("CancelledError"),
                            !.cancel = FALSE, !.stopping = FALSE, !.wait = 0]
    /\ UNCHANGED <<disc, scan, bt, reg, cli>>

\* the steps of the loop's task
LoopStep ==
    \/ SleepElapsed
    \/ \E outcome \in {"market", "none", "raise"} : FetchMarket(outcome)
    \/ \E outcome \in {"saved", "no_orderbook", "failed"} : SnapshotMarket(outcome)
    \/ DeliverCancel


\* the functions are at rest while the order manager or the runner is checked
FilesIdle == reg = RegIdle /\ cli = CliIdle /\ snap = SnapIdle
FunctionsIdle == disc = DiscoveryIdle /\ scan = ScanIdle /\ bt = BtIdle /\ FilesIdle

vars == <<omvars, rvars, fvars>>

\* ------------------------------------------------------------------------
\* The order manager and the risk gate under concurrent callers
\* ------------------------------------------------------------------------
Init == OMInit /\ RunnerInit /\ FunctionsIdle

Next ==
    \/ \E c \in Callers, signal \in SignalPool :
          \/ ProcessSignalNone(c, signal) /\ UNCHANGED <<rvars, fvars>>
          \/ ProcessSignalDryRun(c, signal) /\ UNCHANGED <<rvars, fvars>>
          \/ ProcessSignalBlocked(c, signal) /\ UNCHANGED <<rvars, fvars>>
          \/ ProcessSignalMock(c, signal) /\ UNCHANGED <<rvars, fvars>>
          \/ ProcessSignalSubmit(c, signal) /\ UNCHANGED <<rvars, fvars>>
    \/ \E c \in Callers, outcome \in PlaceOutcomes :
          PlaceOrderReturn(c, outcome) /\ UNCHANGED <<rvars, fvars>>
    \/ \E id \in om_orders, outcome \in GetOutcomes :
          SyncOrderStatus(id, outcome) /\ UNCHANGED <<rvars, fvars>>
    \/ \E id \in om_orders, outcome \in CancelOutcomes :
          CancelOrder(id, outcome) /\ UNCHANGED <<rvars, fvars>>
    \/ \E koid \in DOMAIN exch :
          \E n \in {1, exch[koid].quantity - exch[koid].filled_count} :
             ExchangeFill(koid, n) /\ UNCHANGED <<rvars, fvars>>
    \/ \E ticker \in Tickers, level \in PnlLevels :
          RecordPnl(ticker, level - risk.daily_realized_pnl) /\ UNCHANGED <<rvars, fvars>>
    \/ UpdateUnrealizedPnl /\ UNCHANGED <<rvars, fvars>>

Spec == Init /\ [][Next]_vars

\* ------------------------------------------------------------------------
\* The runner: runs of the trading cycle, one after the other on one day
\* ------------------------------------------------------------------------
CycleNext ==
    \/ NewRun /\ UNCHANGED fvars
    \/ \E ok \in BOOLEAN : InitializeDb(ok) /\ UNCHANGED fvars
    \/ ResetDailyState /\ UNCHANGED fvars
    \/ \E found \in SUBSET Tickers, ok \in BOOLEAN : Discovery(found, ok) /\ UNCHANGED fvars
    \/ Snapshot /\ UNCHANGED fvars
    \/ \E chosen \in SUBSET SignalPool, ok \in BOOLEAN : Evaluate(chosen, ok) /\ UNCHANGED fvars
    \/ \E backtest \in BacktestResults, ok \in BOOLEAN : ValidateSignal(backtest, ok) /\ UNCHANGED fvars
    \/ ValidationDone /\ UNCHANGED fvars
    \/ RouteSignal(ProcessSignalNone(0, Head(todo))) /\ UNCHANGED fvars
    \/ RouteSignal(ProcessSignalDryRun(0, Head(todo))) /\ UNCHANGED fvars
    \/ RouteSignal(ProcessSignalBlocked(0, Head(todo))) /\ UNCHANGED fvars
    \/ RouteSignal(ProcessSignalMock(0, Head(todo))) /\ UNCHANGED fvars
    \/ RouteSignal(ProcessSignalSubmit(0, Head(todo))) /\ UNCHANGED fvars
    \/ \E outcome \in PlaceOutcomes : RunnerPlaceReturn(outcome) /\ UNCHANGED fvars
    \/ \E ok \in BOOLEAN : SaveOrder(ok) /\ UNCHANGED fvars
    \/ ExecutionDone /\ UNCHANGED fvars
    \/ \E ok \in BOOLEAN : Report(ok) /\ UNCHANGED fvars
    \/ Finally /\ UNCHANGED fvars

SpecCycle == Init /\ [][CycleNext]_vars

\* ------------------------------------------------------------------------
\* One call of discover_and_filter, on every page of markets of the pool
\* ------------------------------------------------------------------------
\* the settings of a fresh installation, nothing running
AtRest ==
    /\ OMInit /\ RunnerInit
    /\ mode = PAPER
    /\ ~kalshi_api_key /\ ~kalshi_api_key_id /\ ~kalshi_private_key_path

DiscoveryNext ==
    \/ FindSameDayMarkets /\ UNCHANGED <<omvars, rvars>>
    \/ FilterMarkets /\ UNCHANGED <<omvars, rvars>>

DiscoveryCalled == AtRest /\ DiscoveryInit /\ scan = ScanIdle /\ bt = BtIdle /\ FilesIdle

SpecDiscovery == DiscoveryCalled /\ [][DiscoveryNext]_vars

\* ------------------------------------------------------------------------
\* One scan cycle over the mapped markets
\* ------------------------------------------------------------------------
ScanNext ==
    \/ Compare /\ UNCHANGED <<omvars, rvars>>
    \/ AggregateOpportunities /\ UNCHANGED <<omvars, rvars>>

ScanStarted == AtRest /\ ScanInit /\ disc = DiscoveryIdle /\ bt = BtIdle /\ FilesIdle

SpecScan == ScanStarted /\ [][ScanNext]_vars

\* ------------------------------------------------------------------------
\* One call of walk_forward_backtest
\* ------------------------------------------------------------------------
BacktestNext ==
    \/ WalkForwardBacktest /\ UNCHANGED <<omvars, rvars>>
    \/ ValidateOnSeries /\ UNCHANGED <<omvars, rvars>>

BacktestCalled == AtRest /\ BtInit /\ disc = DiscoveryIdle /\ scan = ScanIdle /\ FilesIdle

SpecBacktest == BacktestCalled /\ [][BacktestNext]_vars

\* ------------------------------------------------------------------------
\* One run of auto_map over a registry file
\* ------------------------------------------------------------------------
RegistryNext ==
    \/ BuildMappings /\ UNCHANGED <<omvars, rvars>>
    \/ AutoMapReturn /\ UNCHANGED <<omvars, rvars>>
    \/ WriteOpen /\ UNCHANGED <<omvars, rvars>>
    \/ WriteSome /\ UNCHANGED <<omvars, rvars>>
    \/ WriteClose /\ UNCHANGED <<omvars, rvars>>
    \/ CrashInWrite /\ UNCHANGED <<omvars, rvars>>

AutoMapCalled ==
    /\ AtRest /\ RegInit
    /\ disc = DiscoveryIdle /\ scan = ScanIdle /\ bt = BtIdle
    /\ cli = CliIdle /\ snap = SnapIdle

SpecRegistry == AutoMapCalled /\ [][RegistryNext]_vars

\* ------------------------------------------------------------------------
\* A scan writing .last_opportunities.json while an execute command runs
\* ------------------------------------------------------------------------
CliNext ==
    \/ SaveOpen /\ UNCHANGED <<omvars, rvars>>
    \/ SaveSome /\ UNCHANGED <<omvars, rvars>>
    \/ SaveClose /\ UNCHANGED <<omvars, rvars>>
    \/ Execute /\ UNCHANGED <<omvars, rvars>>

ScanAndExecute ==
    /\ AtRest /\ CliInit
    /\ disc = DiscoveryIdle /\ scan = ScanIdle /\ bt = BtIdle
    /\ reg = RegIdle /\ snap = SnapIdle

SpecCli == ScanAndExecute /\ [][CliNext]_vars

\* ------------------------------------------------------------------------
\* The snapshot loop, started and stopped by its owner
\* ------------------------------------------------------------------------
SnapshotNext ==
    \/ StartContinuousSnapshotting /\ UNCHANGED <<omvars, rvars>>
    \/ Stop /\ UNCHANGED <<omvars, rvars>>
    \/ SleepElapsed /\ UNCHANGED <<omvars, rvars>>
    \/ \E outcome \in {"market", "none", "raise"} :
          FetchMarket(outcome) /\ UNCHANGED <<omvars, rvars>>
    \/ \E outcome \in {"saved", "no_orderbook", "failed"} :
          SnapshotMarket(outcome) /\ UNCHANGED <<omvars, rvars>>
    \/ DeliverCancel /\ UNCHANGED <<omvars, rvars>>

SnapshotterBuilt ==
    /\ AtRest /\ SnapInit
    /\ disc = DiscoveryIdle /\ scan = ScanIdle /\ bt = BtIdle
    /\ reg = RegIdle /\ cli = CliIdle

SpecSnapshot == SnapshotterBuilt /\ [][SnapshotNext]_vars

\* the event loop runs a task that is ready: a sleep elapses, a request is
\* answered, a requested cancellation is delivered.  Nothing makes the owner
\* call start or stop.
SpecSnapshotLive ==
    SnapshotterBuilt /\ [][SnapshotNext]_vars /\ WF_vars(LoopStep /\ UNCHANGED <<omvars, rvars>>)

\* ------------------------------------------------------------------------
\* Properties of the order manager and the risk gate
\* ------------------------------------------------------------------------
Key(id) == objs[id].idempotency_key

\* C1 as stated: of the process_signal calls made with one (date, ticker,
\* strategy, side), at most one hands an order to the exchange client and at
\* most one returns an order (every later call returns nothing).
C1_AtMostOneOrderPerKey ==
    /\ \A a, b \in placed : a # b => Key(a) # Key(b)
    /\ \A a, b \in returned : a # b => Key(a) # Key(b)

\* C1, amended: at most one order per key is handed to the exchange client,
\* under every interleaving of the callers; and once an order with a key has
\* been handed over, no other call builds or returns an order with that key.
C1_AtMostOneSubmission ==
    \A a \in placed : \A b \in DOMAIN objs : a # b => Key(a) # Key(b)

\* a call was skipped as a duplicate while the first call with its key was
\* still suspended in client.place_order
C1_Witness ==
    \E c \in Callers :
        /\ pc[c] = "placing"
        /\ last_log.event = "duplicate_order_skipped"
        /\ last_log.key = Key(cur[c])

DailyLossBreached == daily_total_pnl(risk) < 0 - Cents(max_daily_loss_dollars)

C4_TerminalStatusIsFinal ==
    [][\A id \in DOMAIN objs :
          is_complete(objs[id].status) => objs'[id].status = objs[id].status]_vars

Pending(st) == st.pending_order_exposure

\* C5: record_order_submitted raises pending exposure by exactly the order's
\* notional, which is positive; record_fill lowers it by at most that notional
\* and never below zero.  Stated of the steps that make one of the two calls,
\* and of either call made on any order in any reachable state.
C5_RiskMonotonicity ==
    [][/\ \A c \in Callers :
             pc[c] = "idle" /\ pc'[c] = "placing" =>
                /\ Pending(risk') = Pending(risk) + notional_value(objs'[cur'[c]])
                /\ Pending(risk') > Pending(risk)
       /\ \A id \in om_orders :
             ~objs[id].filled_at /\ objs'[id].filled_at =>
                /\ Pending(risk') <= Pending(risk)
                /\ Pending(risk') >= Pending(risk) - notional_value(objs[id])
                /\ Pending(risk') >= 0
       /\ \A id \in DOMAIN objs :
             /\ Pending(record_order_submitted(risk, objs[id]))
                   = Pending(risk) + notional_value(objs[id])
             /\ Pending(record_order_submitted(risk, objs[id])) > Pending(risk)
             /\ Pending(record_fill(risk, objs[id])) <= Pending(risk)
             /\ Pending(record_fill(risk, objs[id]))
                   >= Pending(risk) - notional_value(objs[id])
             /\ Pending(record_fill(risk, objs[id])) >= 0]_vars

\* an order was submitted to the exchange and its fill was recorded by
\* sync_order_status while another submission is still pending
C5_Witness ==
    /\ ClientKind = "real"
    /\ \E id \in om_orders : objs[id].filled_at
    /\ Pending(risk) > 0

NoApiKey == "No API key configured for live trading"
CredentialBundle == kalshi_api_key_id /\ kalshi_private_key_path

\* C10: in LIVE mode an order is rejected for missing credentials exactly when
\* no credential bundle (key id and private key) is configured.
C10_RejectedIffNoBundle ==
    mode = LIVE =>
        \A id \in DOMAIN objs :
            (objs[id].error_message = NoApiKey) <=> ~CredentialBundle

\* ------------------------------------------------------------------------
\* Properties of the runner and the orders table
\* ------------------------------------------------------------------------
\* the orders this run handed to the exchange client
Submitted == {id \in placed : id >= first_id}

\* C2: within one run no more than max_trades_per_day orders are submitted,
\* the runner routes no further signal once that many orders are in its list,
\* and once the risk gate has recorded max_trades_per_day submissions
\* check_order fails every signal with the max-trades reason.
C2_TradeCap ==
    /\ Cardinality(Submitted) <= max_trades_per_day
    /\ n_orders >= max_trades_per_day => rpc \notin {"execution", "placing", "save"}
    /\ risk.trades_today >= max_trades_per_day =>
          \A signal \in SignalPool :
             LET chk == check_order(risk, signal, Cents(default_position_size_dollars))
             IN ~chk.passed /\ chk.reason = "Max trades reached"

\* the runner left its loop at the cap with a valid signal still unrouted
C2_Witness ==
    /\ rpc = "reporting"
    /\ todo # <<>>
    /\ n_orders = max_trades_per_day
    /\ risk.trades_today = max_trades_per_day
    /\ Cardinality(Submitted) = max_trades_per_day

\* C6: in every state, each idempotency key marked as used in the risk gate
\* belongs to an order that is in the orders table.
C6_WriteThenAcknowledge ==
    \A key \in idempotency_keys : \E r \in db : r.idempotency_key = key

\* C7: no step removes or changes a row of the orders table (a save under a
\* key the table already holds leaves the first order's row), and the table
\* never holds two rows with one idempotency key.
C7_FirstOrderKept ==
    [][/\ \A r \in db : r \in db'
       /\ \A a, b \in db' : a.idempotency_key = b.idempotency_key => a = b]_vars

\* C8: when run() is over, by return or by an exception leaving it, the client
\* has been closed and the exception raised in the run, if any, is in the
\* summary's errors.
C8_ErrorsRecordedClientClosed ==
    rpc \in {"returned", "raised"} =>
        /\ client_closed
        /\ exc # "" => exc \in Range(errors)

IsPrefix(a, b) == Len(a) <= Len(b) /\ a = SubSeq(b, 1, Len(a))

\* C9: the steps a run has started are, in order, the first steps of
\* discovery, snapshot, evaluation, validation, execution, reporting; execution
\* has not started and no order of the run exists while a signal is still to
\* be validated; reporting has not started while a signal is being routed or
\* an order saved.
C9_StepsInOrder ==
    /\ IsPrefix(steps, StepOrder)
    /\ to_validate # <<>> =>
          /\ "execution" \notin Range(steps)
          /\ \A id \in DOMAIN objs : id < first_id
    /\ rpc \in {"execution", "placing", "save"} => steps = SubSeq(StepOrder, 1, 5)
    /\ (\E id \in DOMAIN objs : id >= first_id) => Len(steps) >= 5
    /\ "reporting" \in Range(steps) => pc[0] = "idle" /\ rpc \in {"finally", "returned"}

\* a run validated several signals, submitted an order and reached reporting
C9_Witness ==
    /\ steps = StepOrder
    /\ Len(valid_signals) >= 2
    /\ Submitted # {}
    /\ rpc = "returned"

\* C11: in DRY_RUN mode no step of a run hands an order to the exchange client
\* or to the paper simulator (no order placed, no exchange order, the
\* simulator's orders and balance untouched), every order process_signal has
\* built is PENDING with filled quantity 0 and no fill time, so is every row
\* saved, and the run counts zero filled orders.
C11_DryRunExecutesNothing ==
    mode = DRY_RUN =>
        /\ placed = {}
        /\ DOMAIN exch = {}
        /\ mock_orders = {}
        /\ mock_balance = Cents(initial_balance)
        /\ \A c \in DOMAIN pc : pc[c] = "idle"
        /\ \A id \in DOMAIN objs :
              /\ objs[id].status = PENDING
              /\ objs[id].filled_quantity = 0
              /\ ~objs[id].filled_at
              /\ objs[id].kalshi_order_id = NoId
        /\ \A r \in db : r.status = PENDING
        /\ orders_filled = 0

\* a dry run went through every step and returned with orders in its list
C11_Witness ==
    /\ mode = DRY_RUN
    /\ rpc = "returned"
    /\ steps = StepOrder
    /\ n_orders >= 2
    /\ \E id \in returned : id >= first_id

\* the order was placed and is still open where it was placed: at the paper
\* simulator, or at the exchange
OpenWherePlaced(id) ==
    /\ objs[id].kalshi_order_id # NoId
    /\ IF ClientKind = "mock"
       THEN id \in mock_orders /\ objs[id].status = OPEN
       ELSE /\ objs[id].kalshi_order_id \in DOMAIN exch
            /\ exch[objs[id].kalshi_order_id].status = "open"

\* C12: for every order the order manager holds, cancel_order succeeds and
\* leaves it CANCELLED when the order has no exchange id, and also when the
\* order was placed and is still open at the exchange or the paper simulator
\* (the exchange accepting the cancellation).
C12_CancelSucceeds ==
    \A id \in om_orders :
        /\ objs[id].kalshi_order_id = NoId =>
              \A outcome \in CancelOutcomes :
                  /\ cancel_result(id, outcome).success
                  /\ cancel_result(id, outcome).status = CANCELLED
        /\ OpenWherePlaced(id) =>
              /\ cancel_result(id, "ok").success
              /\ cancel_result(id, "ok").status = CANCELLED

\* C13: every order has filled_quantity <= quantity, and its
\* average_fill_price is set exactly when filled_quantity > 0.
C13_FillFieldsConsistent ==
    \A id \in DOMAIN objs :
        /\ objs[id].filled_quantity <= objs[id].quantity
        /\ (objs[id].average_fill_price # NoPrice) <=> (objs[id].filled_quantity > 0)

\* C14: once client.place_order has failed on rejected credentials in a run,
\* no later order of that run is handed to the exchange client.
C14_AuthErrorEndsCycle ==
    \A a \in DOMAIN objs :
        a >= first_id /\ objs[a].error_message = "auth_error" =>
            \A b \in placed : b <= a

\* ------------------------------------------------------------------------
\* Properties of market discovery
\* ------------------------------------------------------------------------
InResult(market) == \E i \in DOMAIN disc.filtered : disc.filtered[i] = market
Candidate(market) == \E i \in DOMAIN disc.same_day : disc.same_day[i] = market
Count(seq, Test(_)) == Len(SelectSeq(seq, Test))

\* the expiry's UTC date is the UTC date of the reference instant (a naive
\* reference_time is a UTC reading, as datetime.utcnow() gives it)
ExpiresOnReferenceDate(market) ==
    /\ market.expiration_time # NoTime
    /\ date(to_utc(market.expiration_time)) = date(to_utc(disc.reference_time))

\* C15: when discover_and_filter has returned, a market of the pages is in
\* the result exactly when its UTC expiry date is the UTC date of the
\* reference instant of the call and _check_market finds no reason against it;
\* and rejection_reasons counts every candidate that was filtered out once,
\* under the reason _check_market gave.
C15_ResultIffSameDayAndFiltersPass ==
    disc.pc = "done" =>
        /\ \A i \in DOMAIN disc.all_markets :
              LET market == disc.all_markets[i]
              IN InResult(market) <=>
                    /\ ExpiresOnReferenceDate(market)
                    /\ check_market(market, disc.reference_time) = NoReason
        /\ \A reason \in Reasons :
              disc.rejection_reasons[reason] =
                 Count(disc.same_day,
                       LAMBDA m : check_market(m, disc.reference_time) = reason)
        /\ \A i \in DOMAIN disc.same_day :
              ~InResult(disc.same_day[i]) =>
                 \E reason \in Reasons :
                    /\ check_market(disc.same_day[i], disc.reference_time) = reason
                    /\ disc.rejection_reasons[reason] >= 1

\* the checks _check_market makes before the trading window find nothing
BeforeWindowPasses(market) ==
    check_market([market EXCEPT !.close_time = NoTime,
                                !.status = "active", !.result = ""],
                 disc.reference_time) = NoReason

\* both datetimes carry a zone, or neither does (one clock read twice)
Comparable(a, b) == a # NoTime /\ b # NoTime /\ a.aware = b.aware

\* half minutes from the reference instant to the instant of close_time
UntilClose(market) == to_utc(market.close_time) - to_utc(disc.reference_time)

\* C16: a market whose close_time is N minutes after the reference instant
\* is rejected as too_close_to_expiry when N < trading_cutoff_minutes (and no
\* earlier check rejects it), and is not rejected as too_close_to_expiry when
\* N > trading_cutoff_minutes, in whatever zones the two datetimes are given.
C16_CutoffInAnyZone ==
    disc.pc = "done" =>
        \A i \in DOMAIN disc.same_day :
            LET market == disc.same_day[i]
                reason == check_market(market, disc.reference_time)
            IN Comparable(market.close_time, disc.reference_time) =>
                  /\ UntilClose(market) < HalfMinutes(trading_cutoff_minutes)
                        /\ BeforeWindowPasses(market)
                        => reason = "too_close_to_expiry" /\ ~InResult(market)
                  /\ UntilClose(market) > HalfMinutes(trading_cutoff_minutes)
                        => reason # "too_close_to_expiry"

\* C17: a market whose minutes-to-close, as _check_market computes them, equal
\* trading_cutoff_minutes is not in the result of filter_markets.
C17_AtCutoffExcluded ==
    disc.pc = "done" =>
        \A i \in DOMAIN disc.same_day :
            LET market == disc.same_day[i]
            IN /\ market.close_time # NoTime
               /\ minutes_to_close(market, disc.reference_time) = trading_cutoff_minutes
               => ~InResult(market)

\* ------------------------------------------------------------------------
\* Properties of the odds scanner
\* ------------------------------------------------------------------------
Fresh(age) == age <= max_staleness_seconds

RichAlertFor(market_key, quote) ==
    \E i \in DOMAIN scan.all_alerts :
        /\ scan.all_alerts[i].market_key = market_key
        /\ scan.all_alerts[i].direction = KALSHI_RICH
        /\ scan.all_alerts[i].sportsbook_bookmaker = quote.bookmaker

\* sell_price - adjusted_p of the scanner's algorithm, in basis points
RichEdge(tob, quote) ==
    Max(0, BpsOfCents(tob.yes_bid) - kalshi_slippage_buffer)
        - quote.p_no_vig * (100 - sportsbook_execution_friction)

\* C18: after a scan cycle, for every market with a valid, fresh top of book
\* and every fresh quote of it with a no-vig probability, the alerts hold a
\* KALSHI_RICH alert for that market and bookmaker exactly when
\* (sell_price - adjusted_p) * 10_000 >= min_edge_bps and yes_bid_size >=
\* min_liquidity, whatever yes_ask_size is.
C18_RichAlertIffEdgeAndBidSize ==
    scan.pc = "done" =>
        \A k \in DOMAIN scan.tob :
            LET tob == scan.tob[k]
            IN is_valid(tob) /\ Fresh(tob.age) =>
                  \A i \in DOMAIN scan.quotes[k] :
                      LET quote == scan.quotes[k][i]
                      IN Fresh(quote.age) /\ quote.p_no_vig # NoStat =>
                            (RichAlertFor(k, quote) <=>
                                /\ RichEdge(tob, quote) >= min_edge_bps
                                /\ tob.yes_bid_size >= min_liquidity)

\* mapping keys and directions in alphabetical order
KeyOrder(market_key) == CHOOSE i \in DOMAIN MarketKeys : MarketKeys[i] = market_key
DirectionOrder(direction) == IF direction = KALSHI_CHEAP THEN 1 ELSE 2

\* C19: aggregate_opportunities returns the opportunities in non-increasing
\* rank_score order, and of two opportunities with equal rank_score the one
\* with the smaller mapping key, or with the same key and the smaller
\* direction, comes first.
C19_RankedWithTieBreak ==
    scan.pc = "done" =>
        \A i, j \in DOMAIN scan.opportunities :
            i < j =>
               LET a == scan.opportunities[i]
                   b == scan.opportunities[j]
               IN /\ a.rank_score >= b.rank_score
                  /\ a.rank_score = b.rank_score =>
                        \/ KeyOrder(a.market_key) < KeyOrder(b.market_key)
                        \/ /\ a.market_key = b.market_key
                           /\ DirectionOrder(a.direction) < DirectionOrder(b.direction)

\* ------------------------------------------------------------------------
\* Properties of the walk-forward backtest
\* ------------------------------------------------------------------------
\* the folds whose trades enter the aggregate, and the aggregate
Traded ==
    IF bt.n_snapshots < min_train_samples + min_test_samples THEN {}
    ELSE {i \in 1..fold_count(bt.n_snapshots) :
             bt.backtests[i].is_valid /\ bt.backtests[i].num_trades > 0}
AggregateTrades == SumOver([i \in Traded |-> bt.backtests[i].num_trades], Traded)
AggregateWins ==
    SumOver([i \in Traded |->
                TruncDiv(bt.backtests[i].win_rate * bt.backtests[i].num_trades, 100)],
            Traded)
TooFewTrades == AggregateTrades < min_backtest_samples
LowWinRate == AggregateWins * 100 < min_win_rate * AggregateTrades
DeepDrawdown == \E i \in Traded : bt.backtests[i].max_drawdown > max_drawdown_percent

\* the failure reason names a threshold that did fail
NamesFailedThreshold(reason) ==
    \/ reason = "Win rate" /\ LowWinRate
    \/ reason = "Trades" /\ TooFewTrades
    \/ reason = "Max DD" /\ DeepDrawdown

Matched ==
    {reg.contracts[i].contract_id : i \in
        {k \in DOMAIN reg.contracts :
            /\ parse_kalshi_ticker(reg.contracts[k])
            /\ first_match(reg.contracts[k], reg.events) # 0}}

\* the entry computed in this run for a matched contract
FreshEntryOf(id) ==
    LET k == CHOOSE i \in DOMAIN reg.contracts : reg.contracts[i].contract_id = id
        ticker == reg.contracts[k]
    IN fresh_entry(ticker, reg.events[first_match(ticker, reg.events)])

RowsOf(rows, id) == {i \in DOMAIN rows : rows[i].contract_id = id}

Built == reg.pc \in {"built", "writing", "done", "crashed"}

\* C21: the registry an auto-map run produces holds every existing row whose
\* contract was not matched in the run, unchanged; for every matched contract
\* it holds exactly one row, the freshly computed entry in place of the whole
\* old row; no contract is in two rows.
C21_MergeReplacesMatchedRows ==
    Built =>
        /\ \A i \in DOMAIN reg.previous :
              reg.previous[i].contract_id \notin Matched =>
                 \E j \in DOMAIN reg.mappings : reg.mappings[j] = reg.previous[i]
        /\ \A id \in Matched :
              /\ Cardinality(RowsOf(reg.mappings, id)) = 1
              /\ \A j \in RowsOf(reg.mappings, id) : reg.mappings[j] = FreshEntryOf(id)
        /\ \A i, j \in DOMAIN reg.mappings :
              reg.mappings[i].contract_id = reg.mappings[j].contract_id => i = j

\* the frame and the uniqueness of C21 without the replacement of the old row
C21_KeptAndUnique ==
    Built =>
        /\ \A i \in DOMAIN reg.previous :
              reg.previous[i].contract_id \notin Matched =>
                 \E j \in DOMAIN reg.mappings : reg.mappings[j] = reg.previous[i]
        /\ \A id \in Matched : Cardinality(RowsOf(reg.mappings, id)) = 1
        /\ \A i, j \in DOMAIN reg.mappings :
              reg.mappings[i].contract_id = reg.mappings[j].contract_id => i = j

\* a run that matched a contract whose old row carried a further key
C21_OldKeySurvives ==
    /\ Built
    /\ \E id \in Matched : \E i \in RowsOf(reg.previous, id) :
          /\ reg.previous[i].note # ""
          /\ \E j \in RowsOf(reg.mappings, id) : reg.mappings[j].note = reg.previous[i].note

\* C22: a write of the mapping registry is atomic: at any point of
\* write_mappings, a crash included, the file is the whole previous registry
\* or the whole new one, never empty or partly written.
C22_RegistryWriteAtomic ==
    \/ reg.file = WholeFile(reg.previous)
    \/ Built /\ reg.file = WholeFile(reg.mappings)

\* the process died in write_mappings and left a file that is neither
C22_CrashLeavesPartialFile ==
    /\ reg.pc = "crashed"
    /\ ~reg.file.whole
    /\ Len(reg.file.rows) < Len(reg.mappings)

\* ------------------------------------------------------------------------
\* Properties of the scratch file and of the execute command
\* ------------------------------------------------------------------------
\* C23: .last_opportunities.json is rewritten atomically on each scan: a
\* command that reads it while the scan of another process writes it sees the
\* whole previous list or the whole new list, never a partial file.
C23_ReaderSeesWholeList ==
    cli.outcome.read =>
        \/ cli.outcome.seen = WholeFile(cli.previous)
        \/ cli.outcome.seen = WholeFile(cli.new)

\* execute read the file between the scan's open and its close
C23_ReaderSawPartialFile ==
    /\ cli.xpc = "ended"
    /\ cli.outcome.read
    /\ ~cli.outcome.seen.whole
    /\ cli.outcome.exit = "JSONDecodeError"

\* C24: execute hands an order to the exchange only when execution is enabled
\* in the configuration, dry-run is off and --confirm was given; in every
\* other case it submits nothing; the share count of the order never exceeds
\* the max_shares of the opportunity.
C24_ExecuteGated ==
    \A i \in DOMAIN cli.outcome.submitted :
        /\ cli.command.execution_enabled
        /\ ~cli.command.dry_run
        /\ cli.command.confirm
        /\ \E k \in DOMAIN cli.outcome.seen.rows :
              /\ k = cli.command.index
              /\ cli.outcome.submitted[i].ticker = cli.outcome.seen.rows[k].kalshi_ticker
              /\ cli.outcome.submitted[i].count <= cli.outcome.seen.rows[k].max_shares

\* an order was placed for fewer shares than were asked for
C24_Witness ==
    /\ cli.xpc = "ended"
    /\ cli.outcome.exit = "placed"
    /\ Len(cli.outcome.submitted) = 1
    /\ cli.command.shares > cli.outcome.submitted[1].count
    /\ cli.outcome.submitted[1].count > 0

\* ------------------------------------------------------------------------
\* Properties of the risk gate over the cycles of a day
\* ------------------------------------------------------------------------
\* C25: over all the cycles the runner runs on one UTC date, at most one
\* order per idempotency key is handed to the exchange client, even though
\* every cycle resets the risk gate when it starts.
C25_OneSubmissionPerKeyPerDay ==
    \A a \in placed : \A b \in placed : Key(a) = Key(b) => a = b

\* a later cycle of the day handed over an order under a key that an earlier
\* cycle had used
C25_ResubmittedAfterReset ==
    /\ cycle = 2
    /\ \E a \in placed : \E b \in placed :
          /\ a < first_id /\ b >= first_id
          /\ Key(a) = Key(b)

\* process_signal's proposed size: settings.default_position_size_dollars
ProposedSize == Cents(default_position_size_dollars)

Exposure(st) == st.total_exposure + st.pending_order_exposure

\* what the admitted orders may add to the sum: their notional
AdmittedNotional == SumOver([id \in placed |-> notional_value(objs[id])], placed)

\* C26: after any sequence of admitted orders, submissions and fills,
\* total_exposure + pending exposure is at most max_total_exposure: an
\* approved check leaves room for the proposed size, the notional of the
\* order created from it (allowed contracts x entry price) is no more than
\* that, and nothing but the notional of the admitted orders is in the sum.
C26_ExposureWithinCap ==
    /\ Exposure(risk) <= Cents(max_total_exposure_dollars)
    /\ Exposure(risk) <= AdmittedNotional
    /\ \A signal \in SignalPool :
          LET chk == check_order(risk, signal, ProposedSize)
              order == create_order(signal, chk.allowed_size, nextId)
          IN chk.passed =>
                /\ Exposure(risk) + ProposedSize <= Cents(max_total_exposure_dollars)
                /\ notional_value(order) <= ProposedSize

\* a fill on the paper simulator put more into total_exposure than the
\* notional that the check had admitted and record_fill took out of pending
C26_FillAboveNotional ==
    \E id \in placed :
        /\ objs[id].filled_at
        /\ risk.pending_order_exposure = 0
        /\ risk.total_exposure > AdmittedNotional

\* the orders handed to the client whose status is not yet terminal
OpenSubmitted == {id \in placed : ~is_complete(objs[id].status)}

\* C27: pending exposure is the summed notional of the submitted orders that
\* have not reached a terminal state; once every submitted order is FILLED,
\* CANCELLED, REJECTED or EXPIRED, pending exposure is zero.
C27_PendingIsOpenNotional ==
    /\ risk.pending_order_exposure =
          SumOver([id \in OpenSubmitted |-> notional_value(objs[id])], OpenSubmitted)
    /\ OpenSubmitted = {} => risk.pending_order_exposure = 0

\* every submitted order was cancelled or rejected, and its notional is still
\* counted as pending
C27_TerminalStillPending ==
    /\ placed # {}
    /\ \A id \in placed : objs[id].status \in {CANCELLED, REJECTED}
    /\ risk.pending_order_exposure =
          SumOver([id \in placed |-> notional_value(objs[id])], placed)

\* ------------------------------------------------------------------------
\* Properties of the validation step
\* ------------------------------------------------------------------------
\* C28: only signals whose walk-forward validation over the snapshots of the
\* last 30 days met the thresholds (win rate >= min_win_rate, sample count >=
\* min_backtest_samples) are kept for the order manager: a signal that
\* _validate_signals keeps is one for which the walk-forward run over the same
\* series is valid and meets its thresholds.
C28_KeptOnlyIfWalkForwardMet ==
    bt.pc = "done" /\ bt.vpc = "done" /\ bt.kept =>
        bt.result.is_valid /\ bt.result.meets_thresholds

\* a signal was kept on the single backtest over the whole series while the
\* walk-forward run over the same series had too few trades in its folds
C28_KeptWithoutWalkForward ==
    /\ bt.pc = "done" /\ bt.vpc = "done"
    /\ bt.kept
    /\ bt.result.is_valid
    /\ ~bt.result.meets_thresholds
    /\ bt.result.failure_reason = "Trades"

\* the part of C28 that holds: in a run, every order the order manager builds
\* is for a signal that the validation step kept, with the backtest's win
\* rate and number of trades attached and at their thresholds
C28_OnlyKeptSignalsRouted ==
    \A id \in DOMAIN objs :
        id >= first_id =>
           \E i \in DOMAIN valid_signals :
              /\ valid_signals[i].ticker = objs[id].ticker
              /\ valid_signals[i].strategy_name = objs[id].strategy_name
              /\ valid_signals[i].side = objs[id].side
              /\ valid_signals[i].backtest_win_rate >= min_win_rate
              /\ valid_signals[i].backtest_samples >= min_backtest_samples

\* ------------------------------------------------------------------------
\* Properties of the order price
\* ------------------------------------------------------------------------
\* C29: every order the order manager creates has a price of 1..99 cents: a
\* signal whose entry price is outside 1..99 gets no order (it is not
\* clamped, not given another price and not submitted as it is).
C29_OrderPriceInRange ==
    \A id \in DOMAIN objs :
        /\ objs[id].price \in 1..99
        /\ \E signal \in SignalPool :
              /\ signal.ticker = objs[id].ticker
              /\ signal.strategy_name = objs[id].strategy_name
              /\ signal.side = objs[id].side
              /\ signal.entry_price \in 1..99

\* an order at 100 cents was handed to the exchange client
C29_OrderAtHundred ==
    \E id \in placed : objs[id].price = 100

====
